---- MODULE Spec2Model ----
(***************************************************************************)
(* A model of the team configuration exchange of bleurgh (src/src/setup.ts) *)
(* : the validators, the base64/JSON codec, the environment diff, the      *)
(* export command synthesis and validation, and the executeSetup           *)
(* orchestrator with its shell config file.                                *)
(*                                                                         *)
(* JavaScript strings are TLA+ strings; a character is a string of length  *)
(* one.  The control character of the model is the form feed "\f" (0x0C),  *)
(* one of the bytes hasControlCharacters rejects and one the escaping      *)
(* engine leaves alone.  NUL has no literal here, so no value of the model *)
(* holds one.                                                              *)
(***************************************************************************)
EXTENDS Integers, Sequences, FiniteSets, TLC

(***************************************************************************)
(* String helpers (String.prototype.includes / startsWith / endsWith).     *)
(***************************************************************************)
CharAt(s, i) == SubSeq(s, i, i)

Chars(s) == { CharAt(s, i) : i \in 1..Len(s) }

Includes(s, sub) ==
  \E i \in 1..(Len(s) - Len(sub) + 1) : SubSeq(s, i, i + Len(sub) - 1) = sub

StartsWith(s, p) == Len(s) >= Len(p) /\ SubSeq(s, 1, Len(p)) = p

EndsWith(s, p) == Len(s) >= Len(p) /\ SubSeq(s, Len(s) - Len(p) + 1, Len(s)) = p

UpperChars == Chars("ABCDEFGHIJKLMNOPQRSTUVWXYZ")

LowerChars == Chars("abcdefghijklmnopqrstuvwxyz")

DigitChars == Chars("0123456789")

\* \s of a JavaScript regular expression, on the characters of the model.
WhiteChars == {" ", "\t", "\n", "\r", "\f"}

\* Array.prototype.join
RECURSIVE Join(_, _)
Join(list, sep) ==
  IF list = <<>> THEN ""
  ELSE IF Len(list) = 1 THEN list[1]
  ELSE list[1] \o sep \o Join(Tail(list), sep)

\* The concatenation of the strings pieces[lo] .. pieces[hi].
RECURSIVE ConcatRange(_, _, _)
ConcatRange(pieces, lo, hi) ==
  IF lo > hi THEN ""
  ELSE IF lo = hi THEN pieces[lo]
  ELSE ConcatRange(pieces, lo, (lo + hi) \div 2) \o ConcatRange(pieces, (lo + hi) \div 2 + 1, hi)

\* String.prototype.split(',') : the pieces between the commas, at least one.
SplitComma(s) ==
  LET commas == { i \in 1..Len(s) : CharAt(s, i) = "," }
      nth(k) == CHOOSE i \in commas : Cardinality({ j \in commas : j < i }) = k - 1
      first(k) == IF k = 1 THEN 1 ELSE nth(k - 1) + 1
      last(k) == IF k = Cardinality(commas) + 1 THEN Len(s) ELSE nth(k) - 1
  IN [k \in 1..(Cardinality(commas) + 1) |-> SubSeq(s, first(k), last(k))]

\* String.prototype.trim
RECURSIVE TrimLeft(_)
TrimLeft(s) ==
  IF s # "" /\ CharAt(s, 1) \in WhiteChars THEN TrimLeft(SubSeq(s, 2, Len(s))) ELSE s

RECURSIVE TrimRight(_)
TrimRight(s) ==
  IF s # "" /\ CharAt(s, Len(s)) \in WhiteChars THEN TrimRight(SubSeq(s, 1, Len(s) - 1)) ELSE s

Trim(s) == TrimRight(TrimLeft(s))

\* value.replace(/ /g, '\\ ')
ReplaceSpaces(s) ==
  ConcatRange([i \in 1..Len(s) |-> IF CharAt(s, i) = " " THEN "\\ " ELSE CharAt(s, i)],
              1, Len(s))

(***************************************************************************)
(* SECURITY_PATTERNS and hasControlCharacters.                             *)
(***************************************************************************)
\* The grave accent (0x60); a string literal holds one only paired with a quote.
BackTick == SubSeq("`'", 1, 1)

DangerousCharSet == {";", "&", "|", BackTick, "$", "(", ")", "{", "}", "[", "]", "<", ">"}

\* The character class of SECURITY_PATTERNS.dangerousChars.
dangerousChars(value) == Chars(value) \cap DangerousCharSet # {}

\* "$(" , or two grave accents with anything but a line terminator between.
commandSubstitution(value) ==
  \/ Includes(value, "$(")
  \/ \E i \in 1..Len(value) : \E j \in (i + 1)..Len(value) :
       /\ CharAt(value, i) = BackTick
       /\ CharAt(value, j) = BackTick
       /\ \A k \in (i + 1)..(j - 1) : CharAt(value, k) \notin {"\n", "\r"}

\* />>|<<|>&|<&/
redirection(value) ==
  \/ Includes(value, ">>") \/ Includes(value, "<<")
  \/ Includes(value, ">&") \/ Includes(value, "<&")

\* /\.\.\//
pathTraversal(value) == Includes(value, "../")

\* The control characters of the model: 0x0C.
ControlChars == {"\f"}

\* A variant that finds no control character.
hasControlCharactersNever(value) == FALSE

hasControlCharacters(value) == Chars(value) \cap ControlChars # {}

\* The patterns in the order of Object.entries(SECURITY_PATTERNS); nullBytes
\* never matches, the model having no NUL.
PatternNames == <<"dangerousChars", "commandSubstitution", "redirection", "pathTraversal">>

PatternTest(name, value) ==
  CASE name = "dangerousChars" -> dangerousChars(value)
    [] name = "commandSubstitution" -> commandSubstitution(value)
    [] name = "redirection" -> redirection(value)
    [] name = "pathTraversal" -> pathTraversal(value)

isServiceNameField(fieldName) == Includes(fieldName, "ServiceNames")

RECURSIVE PatternErrors(_, _, _)
PatternErrors(value, fieldName, i) ==
  IF i > Len(PatternNames) THEN <<>>
  ELSE LET name == PatternNames[i]
           here == IF name = "dangerousChars" /\ isServiceNameField(fieldName)
                   THEN IF dangerousChars(value)
                        THEN <<"Security violation in " \o fieldName
                               \o ": contains dangerous characters (excluding spaces)">>
                        ELSE <<>>
                   ELSE IF PatternTest(name, value)
                        THEN <<"Security violation in " \o fieldName \o ": contains " \o name>>
                        ELSE <<>>
       IN here \o PatternErrors(value, fieldName, i + 1)

checkDangerousPatterns(value, fieldName) ==
  PatternErrors(value, fieldName, 1)
  \o (IF hasControlCharacters(value)
      THEN <<"Security violation in " \o fieldName \o ": contains control characters">>
      ELSE <<>>)

(***************************************************************************)
(* The process environment the validators read: process.env.SHELL.         *)
(***************************************************************************)
VARIABLES
  SHELL,        \* process.env.SHELL
  env,          \* process.env without SHELL: a sequence of [key, value]
  files,        \* the shell config files: path -> [exists, content]
  run,          \* the executeSetup invocation in progress or just ended
  runs,         \* the number of invocations started
  call,         \* the last call of an exported function and what it returned
  purge,        \* the executePurge invocation (src/src/core.ts)
  invocations   \* the executeSetup invocations of the process that wait at an await

\* path.basename : what follows the last "/".
RECURSIVE basename(_)
basename(p) ==
  IF Includes(p, "/")
  THEN basename(SubSeq(p, (CHOOSE i \in 1..Len(p) : CharAt(p, i) = "/") + 1, Len(p)))
  ELSE p

\* supportedShells[shellName] || 'bash'
mappedShell(shellName) ==
  CASE shellName \in {"bash", "zsh", "sh"} -> "bash"
    [] shellName = "cmd" -> "cmd"
    [] shellName \in {"powershell", "pwsh"} -> "powershell"
    [] OTHER -> "bash"

\* new Shescape({ shell }) on a POSIX platform: the constructor throws for a
\* shell of the Windows families ("Shescape does not support the shell ...").
ShescapeThrows == mappedShell(basename(SHELL)) # "bash"

\* What one replacement pass of the escaping makes of the character c, which
\* stands between prev and next ("" at the ends of the string).
EscRemove(prev, c, next) == IF c = "\r" THEN "" ELSE c

EscNewline(prev, c, next) == IF c = "\n" THEN " " ELSE c

EscBackslash(prev, c, next) == IF c = "\\" THEN "\\\\" ELSE c

EscWordStart(prev, c, next) ==
  IF c \in {"#", "~"} /\ (prev = "" \/ prev \in WhiteChars) THEN "\\" \o c ELSE c

EscSpecial(prev, c, next) ==
  IF c \in {"\"", "$", "&", "'", "(", ")", "*", ";", "<", ">", "?", BackTick, "{", "|"}
  THEN "\\" \o c ELSE c

EscTilde(prev, c, next) ==
  IF /\ c = "~"
     /\ prev \in {":", "="}
     /\ (next = "" \/ next \in WhiteChars \cup {"+", "-", "/", "0", ":", "="})
  THEN "\\" \o c ELSE c

EscBlank(prev, c, next) == IF c \in {"\t", " "} THEN "\\" \o c ELSE c

UpperString == "ABCDEFGHIJKLMNOPQRSTUVWXYZ"

LowerString == "abcdefghijklmnopqrstuvwxyz"

LowerCaseOf ==
  [c \in UpperChars |-> CharAt(LowerString, CHOOSE i \in 1..26 : CharAt(UpperString, i) = c)]

LowerOf(prev, c, next) == IF c \in UpperChars THEN LowerCaseOf[c] ELSE c

Replacement(pass, prev, c, next) ==
  CASE pass = "remove" -> EscRemove(prev, c, next)
    [] pass = "newline" -> EscNewline(prev, c, next)
    [] pass = "backslash" -> EscBackslash(prev, c, next)
    [] pass = "wordStart" -> EscWordStart(prev, c, next)
    [] pass = "special" -> EscSpecial(prev, c, next)
    [] pass = "tilde" -> EscTilde(prev, c, next)
    [] pass = "blank" -> EscBlank(prev, c, next)
    [] pass = "lower" -> LowerOf(prev, c, next)

\* One pass of String.prototype.replace(/.../g, ...) over the characters of s,
\* from the i-th on.
ReplaceEach(s, i, pass) ==
  ConcatRange([k \in 1..Len(s) |->
                 Replacement(pass,
                             IF k = 1 THEN "" ELSE CharAt(s, k - 1),
                             CharAt(s, k),
                             IF k = Len(s) THEN "" ELSE CharAt(s, k + 1))],
              i, Len(s))

\* shescape.escape(value) for the bash family: the replacements of the
\* library's bash escaping, one after the other.
ShescapeEscape(value) ==
  LET s1 == ReplaceEach(value, 1, "remove")
      s2 == ReplaceEach(s1, 1, "newline")
      s3 == ReplaceEach(s2, 1, "backslash")
      s4 == ReplaceEach(s3, 1, "wordStart")
      s5 == ReplaceEach(s4, 1, "special")
      s6 == ReplaceEach(s5, 1, "tilde")
  IN ReplaceEach(s6, 1, "blank")

\* A variant whose catch reports nothing: no fallback to the static check.
checkShellInjectionWithoutFallback(value, fieldName) ==
  IF ShescapeThrows THEN <<>>
  ELSE LET escaped == ShescapeEscape(value) IN
       (IF escaped # value /\ ~isServiceNameField(fieldName)
        THEN <<"Security violation in " \o fieldName
               \o ": contains shell metacharacters that require escaping">>
        ELSE <<>>)
       \o
       (IF escaped # value /\ isServiceNameField(fieldName) /\ escaped # ReplaceSpaces(value)
        THEN <<"Security violation in " \o fieldName
               \o ": contains dangerous shell metacharacters beyond spaces">>
        ELSE <<>>)

checkShellInjection(value, fieldName) ==
  IF ShescapeThrows
  THEN IF dangerousChars(value) /\ ~isServiceNameField(fieldName)
       THEN <<"Security violation in " \o fieldName
              \o ": contains potentially dangerous shell characters">>
       ELSE <<>>
  ELSE LET escaped == ShescapeEscape(value) IN
       (IF escaped # value /\ ~isServiceNameField(fieldName)
        THEN <<"Security violation in " \o fieldName
               \o ": contains shell metacharacters that require escaping">>
        ELSE <<>>)
       \o
       (IF escaped # value /\ isServiceNameField(fieldName) /\ escaped # ReplaceSpaces(value)
        THEN <<"Security violation in " \o fieldName
               \o ": contains dangerous shell metacharacters beyond spaces">>
        ELSE <<>>)

(***************************************************************************)
(* Suspicious keywords (warnings only).                                    *)
(***************************************************************************)
SUSPICIOUS_KEYWORDS ==
  << "rm", "delete", "del", "unlink", "rmdir",
     "curl", "wget", "fetch", "nc", "netcat",
     "eval", "exec", "system", "shell",
     "chmod", "chown", "sudo", "su",
     "kill", "killall", "pkill",
     "crontab", "at", "nohup",
     "python", "perl", "ruby", "node", "bash", "sh", "zsh", "fish",
     "http://", "https://", "ftp://", "ssh://",
     "DROP", "DELETE", "TRUNCATE", "ALTER" >>

toLowerCase(s) == ReplaceEach(s, 1, "lower")

\* keyword.toLowerCase() of each keyword
LowerKeywords == [i \in 1..Len(SUSPICIOUS_KEYWORDS) |-> toLowerCase(SUSPICIOUS_KEYWORDS[i])]

RECURSIVE KeywordWarnings(_, _, _)
KeywordWarnings(lowerValue, fieldName, i) ==
  IF i > Len(SUSPICIOUS_KEYWORDS) THEN <<>>
  ELSE (IF Includes(lowerValue, LowerKeywords[i])
        THEN <<"Suspicious content in " \o fieldName \o ": contains '"
               \o SUSPICIOUS_KEYWORDS[i] \o "'">>
        ELSE <<>>)
       \o KeywordWarnings(lowerValue, fieldName, i + 1)

checkSuspiciousKeywords(value, fieldName) ==
  KeywordWarnings(toLowerCase(value), fieldName, 1)

(***************************************************************************)
(* Field format validators.                                                *)
(***************************************************************************)
\* /^[a-zA-Z0-9_-]+$/
IsIdToken(t) ==
  t # "" /\ Chars(t) \subseteq (UpperChars \cup LowerChars \cup DigitChars \cup {"_", "-"})

\* /^[a-zA-Z0-9\s_-]+$/
IsNameToken(t) ==
  t # "" /\ Chars(t) \subseteq
              (UpperChars \cup LowerChars \cup DigitChars \cup WhiteChars \cup {"_", "-"})

RECURSIVE ServiceIdErrors(_, _)
ServiceIdErrors(fieldName, ids) ==
  IF ids = <<>> THEN <<>>
  ELSE (IF ~IsIdToken(Trim(ids[1]))
        THEN <<"Invalid service ID format in " \o fieldName \o ": '" \o Trim(ids[1])
               \o "' should only contain alphanumeric characters, underscores, and hyphens">>
        ELSE <<>>)
       \o ServiceIdErrors(fieldName, Tail(ids))

validateServiceIdsFormat(fieldName, value) == ServiceIdErrors(fieldName, SplitComma(value))

RECURSIVE ServiceNameErrors(_, _)
ServiceNameErrors(fieldName, names) ==
  IF names = <<>> THEN <<>>
  ELSE (IF ~IsNameToken(Trim(names[1]))
        THEN <<"Invalid service name format in " \o fieldName \o ": '" \o Trim(names[1])
               \o "' should only contain alphanumeric characters, spaces, underscores, and hyphens">>
        ELSE <<>>)
       \o (IF Len(Trim(names[1])) = 0
           THEN <<"Empty service name found in " \o fieldName>>
           ELSE <<>>)
       \o ServiceNameErrors(fieldName, Tail(names))

validateServiceNamesFormat(fieldName, value) == ServiceNameErrors(fieldName, SplitComma(value))

RECURSIVE KeyErrors(_)
KeyErrors(keys) ==
  IF keys = <<>> THEN <<>>
  ELSE (IF ~IsIdToken(Trim(keys[1]))
        THEN <<"Invalid default key format: '" \o Trim(keys[1])
               \o "' should only contain alphanumeric characters, underscores, and hyphens">>
        ELSE <<>>)
       \o KeyErrors(Tail(keys))

validateKeysFormat(value) == KeyErrors(SplitComma(value))

\* The errors of validateFieldFormat; its warnings are always empty.
validateFieldFormat(envVarName, value) ==
  IF EndsWith(envVarName, "_SERVICE_IDS") THEN validateServiceIdsFormat(envVarName, value)
  ELSE IF EndsWith(envVarName, "_SERVICE_NAMES") THEN validateServiceNamesFormat(envVarName, value)
  ELSE IF EndsWith(envVarName, "_DEFAULT_KEYS") THEN validateKeysFormat(value)
  ELSE <<>>

(***************************************************************************)
(* validateSetupConfig.  A configuration is the sequence of its entries    *)
(* [key, value] in Object.entries order.                                   *)
(***************************************************************************)
MaxValueLength == 1000

\* startsWith('FASTLY_') and /^[A-Z_][A-Z0-9_]*$/
IsValidName(name) ==
  /\ StartsWith(name, "FASTLY_")
  /\ CharAt(name, 1) \in UpperChars \cup {"_"}
  /\ Chars(name) \subseteq UpperChars \cup DigitChars \cup {"_"}

NameError(name) ==
  "Invalid environment variable name: '" \o name
  \o "' must start with 'FASTLY_' and contain only uppercase letters, numbers, and underscores"

\* A variant in which a value over the length limit gets no further check.
EntryFindingsLengthStops(envVarName, envVarValue) ==
  IF envVarValue = "" THEN [errors |-> <<>>, warnings |-> <<>>]
  ELSE IF ~IsValidName(envVarName)
  THEN [errors |-> <<NameError(envVarName)>>, warnings |-> <<>>]
  ELSE IF Len(envVarValue) > MaxValueLength
  THEN [errors |-> <<"Environment variable " \o envVarName
                     \o " exceeds maximum length (1000 characters)">>,
        warnings |-> <<>>]
  ELSE [errors |->
          checkDangerousPatterns(envVarValue, envVarName)
          \o checkShellInjection(envVarValue, envVarName)
          \o validateFieldFormat(envVarName, envVarValue),
        warnings |-> checkSuspiciousKeywords(envVarValue, envVarName)]

\* The errors and warnings one entry adds.
EntryFindings(envVarName, envVarValue) ==
  IF envVarValue = "" THEN [errors |-> <<>>, warnings |-> <<>>]
  ELSE IF ~IsValidName(envVarName)
  THEN [errors |-> <<NameError(envVarName)>>, warnings |-> <<>>]
  ELSE [errors |->
          (IF Len(envVarValue) > MaxValueLength
           THEN <<"Environment variable " \o envVarName
                  \o " exceeds maximum length (1000 characters)">>
           ELSE <<>>)
          \o checkDangerousPatterns(envVarValue, envVarName)
          \o checkShellInjection(envVarValue, envVarName)
          \o validateFieldFormat(envVarName, envVarValue),
        warnings |-> checkSuspiciousKeywords(envVarValue, envVarName)]

\* One call of a logger method or of console.log / console.warn.
Log(level, msg) == [level |-> level, msg |-> msg]

Info(msg) == Log("info", msg)

\* The text of the error the escaping engine throws for a shell family it
\* does not serve on this platform.
EngineError == "Error: Shescape does not support the shell " \o mappedShell(basename(SHELL))

\* What the validation of a configuration writes with console.warn: the
\* fallback notice of checkShellInjection, once for every entry it checks.
RECURSIVE ConfigConsole(_)
ConfigConsole(config) ==
  IF config = <<>> THEN <<>>
  ELSE (IF config[1].value # "" /\ IsValidName(config[1].key) /\ ShescapeThrows
        THEN <<Log("console.warn",
                   "Shescape validation failed, falling back to basic validation: "
                   \o EngineError)>>
        ELSE <<>>)
       \o ConfigConsole(Tail(config))

\* A variant of the loop that stops at the first entry with an error.
RECURSIVE ConfigFindingsFailFast(_)
ConfigFindingsFailFast(config) ==
  IF config = <<>> THEN [errors |-> <<>>, warnings |-> <<>>]
  ELSE LET first == EntryFindings(config[1].key, config[1].value) IN
       IF first.errors # <<>> THEN first
       ELSE LET rest == ConfigFindingsFailFast(Tail(config)) IN
            [errors |-> rest.errors, warnings |-> first.warnings \o rest.warnings]

\* The loop over Object.entries(config): the findings of the entries, in order.
RECURSIVE ConfigFindings(_)
ConfigFindings(config) ==
  IF config = <<>> THEN [errors |-> <<>>, warnings |-> <<>>]
  ELSE LET first == EntryFindings(config[1].key, config[1].value)
           rest == ConfigFindings(Tail(config))
       IN [errors |-> first.errors \o rest.errors, warnings |-> first.warnings \o rest.warnings]

\* A variant of the verdict that lets a warning fail the configuration.
VerdictCountingWarnings(findings) ==
  [isValid |-> findings.errors = <<>> /\ findings.warnings = <<>>,
   errors |-> findings.errors, warnings |-> findings.warnings]

\* result.isValid = result.errors.length === 0
Verdict(findings) ==
  [isValid |-> findings.errors = <<>>, errors |-> findings.errors, warnings |-> findings.warnings]

validateSetupConfig(config) == Verdict(ConfigFindings(config))

(***************************************************************************)
(* The codec: JSON.stringify / JSON.parse and Buffer's base64, on the      *)
(* ASCII characters (one UTF-8 byte each).                                 *)
(***************************************************************************)
\* The printable ASCII characters, 0x20 to 0x7E, in code order.
AsciiPrintable ==
  " !\"#$%&'()*+,-./0123456789:;<=>?@ABCDEFGHIJKLMNOPQRSTUVWXYZ[\\]^_"
  \o BackTick \o "abcdefghijklmnopqrstuvwxyz{|}~"

\* What stands for a byte sequence that is no ASCII character (U+FFFD).
ReplacementChar == "@"

\* String.prototype.charCodeAt, as a function of the character.
CharCode ==
  [c \in Chars(AsciiPrintable) \cup {"\t", "\n", "\f", "\r"} |->
     CASE c = "\t" -> 9
       [] c = "\n" -> 10
       [] c = "\f" -> 12
       [] c = "\r" -> 13
       [] OTHER -> 31 + (CHOOSE i \in 1..Len(AsciiPrintable) : CharAt(AsciiPrintable, i) = c)]

\* The character of a byte.  A control byte without a literal of its own is
\* read as the control character of the model, a byte above 0x7E as the
\* replacement character.
FromCharCode(n) ==
  IF n >= 32 /\ n <= 126 THEN CharAt(AsciiPrintable, n - 31)
  ELSE IF n = 9 THEN "\t"
  ELSE IF n = 10 THEN "\n"
  ELSE IF n = 13 THEN "\r"
  ELSE IF n < 32 THEN "\f"
  ELSE ReplacementChar

\* Buffer.from(s, 'utf-8')
Utf8Bytes(s) == [i \in 1..Len(s) |-> CharCode[CharAt(s, i)]]

\* buffer.toString('utf-8')
Utf8String(bytes) ==
  ConcatRange([i \in 1..Len(bytes) |-> FromCharCode(bytes[i])], 1, Len(bytes))

Base64Alphabet == "ABCDEFGHIJKLMNOPQRSTUVWXYZabcdefghijklmnopqrstuvwxyz0123456789+/"

Base64Char(n) == CharAt(Base64Alphabet, n + 1)

\* The sextet of a character: the URL-safe "-" and "_" are accepted too.
Base64Value ==
  [c \in Chars(Base64Alphabet) \cup {"-", "_"} |->
     CASE c = "-" -> 62
       [] c = "_" -> 63
       [] OTHER -> (CHOOSE i \in 1..64 : CharAt(Base64Alphabet, i) = c) - 1]

\* The four characters that encode the bytes 3k-2 .. 3k, with padding
\* where the bytes end.
Base64Group(bytes, k) ==
  LET b1 == bytes[3 * k - 2]
      b2 == IF 3 * k - 1 <= Len(bytes) THEN bytes[3 * k - 1] ELSE 0
      b3 == IF 3 * k <= Len(bytes) THEN bytes[3 * k] ELSE 0
  IN Base64Char(b1 \div 4)
     \o Base64Char((b1 % 4) * 16 + b2 \div 16)
     \o (IF 3 * k - 1 <= Len(bytes) THEN Base64Char((b2 % 16) * 4 + b3 \div 64) ELSE "=")
     \o (IF 3 * k <= Len(bytes) THEN Base64Char(b3 % 64) ELSE "=")

\* buffer.toString('base64')
Base64Encode(bytes) ==
  ConcatRange([k \in 1..((Len(bytes) + 2) \div 3) |-> Base64Group(bytes, k)],
              1, (Len(bytes) + 2) \div 3)

IsBase64Char(c) == c \in DOMAIN Base64Value

\* The sextets of the characters of the alphabet; every other character
\* (the padding, blanks, anything else) is skipped.
Sextets(s) ==
  LET kept == SelectSeq([i \in 1..Len(s) |-> CharAt(s, i)], IsBase64Char)
  IN [i \in 1..Len(kept) |-> Base64Value[kept[i]]]

\* The bytes of the sextets: three of every four, and of a rest of two or
\* three sextets one or two bytes.
SextetBytes(q) ==
  LET rest == Len(q) % 4
      count == 3 * (Len(q) \div 4) + (IF rest = 2 THEN 1 ELSE IF rest = 3 THEN 2 ELSE 0)
  IN [j \in 1..count |->
        LET base == 4 * ((j - 1) \div 3) IN
        CASE (j - 1) % 3 = 0 -> q[base + 1] * 4 + q[base + 2] \div 16
          [] (j - 1) % 3 = 1 -> (q[base + 2] % 16) * 16 + q[base + 3] \div 4
          [] OTHER -> (q[base + 3] % 4) * 64 + q[base + 4]]

\* Buffer.from(s, 'base64') : never throws.
Base64Decode(s) == SextetBytes(Sextets(s))

\* A string of JSON text: JSON.stringify(string).
JsonEscape(prev, c, next) ==
  CASE c = "\"" -> "\\\""
    [] c = "\\" -> "\\\\"
    [] c = "\f" -> "\\f"
    [] c = "\n" -> "\\n"
    [] c = "\r" -> "\\r"
    [] c = "\t" -> "\\t"
    [] OTHER -> c

RECURSIVE JsonQuoteFrom(_, _)
JsonQuoteFrom(s, i) ==
  IF i > Len(s) THEN "" ELSE JsonEscape("", CharAt(s, i), "") \o JsonQuoteFrom(s, i + 1)

JsonQuote(s) == "\"" \o JsonQuoteFrom(s, 1) \o "\""

RECURSIVE JsonMembers(_)
JsonMembers(config) ==
  IF config = <<>> THEN <<>>
  ELSE <<JsonQuote(config[1].key) \o ":" \o JsonQuote(config[1].value)>>
       \o JsonMembers(Tail(config))

\* JSON.stringify(config, null, 0)
JsonStringify(config) == "{" \o Join(JsonMembers(config), ",") \o "}"

\* encodeSetupString
encodeSetupString(config) == Base64Encode(Utf8Bytes(JsonStringify(config)))

(***************************************************************************)
(* JSON.parse, for the texts of the model: a top-level object whose        *)
(* members are strings, or a top-level string, integer, null, true or      *)
(* false.  A parse gives [ok, pos, ...]: pos is the index after the value. *)
(***************************************************************************)
JsonWhite == {" ", "\t", "\n", "\r"}

RECURSIVE SkipWhite(_, _)
SkipWhite(s, i) ==
  IF i <= Len(s) /\ CharAt(s, i) \in JsonWhite THEN SkipWhite(s, i + 1) ELSE i

HexDigits == "0123456789abcdef"

IsHex(c) == c \in Chars(HexDigits) \cup Chars("ABCDEF")

HexValue(c) ==
  (CHOOSE i \in 1..16 : CharAt(HexDigits, i) = ReplaceEach(c, 1, "lower")) - 1

\* The body of a JSON string from index i (after the opening quote).
RECURSIVE ParseStringBody(_, _, _)
ParseStringBody(s, i, acc) ==
  IF i > Len(s) THEN [ok |-> FALSE, pos |-> i, val |-> ""]
  ELSE LET c == CharAt(s, i) IN
    IF c = "\"" THEN [ok |-> TRUE, pos |-> i + 1, val |-> acc]
    ELSE IF c = "\\"
    THEN IF i + 1 > Len(s) THEN [ok |-> FALSE, pos |-> i, val |-> ""]
         ELSE LET e == CharAt(s, i + 1) IN
           IF e \in {"\"", "\\", "/"} THEN ParseStringBody(s, i + 2, acc \o e)
           ELSE IF e = "b" THEN ParseStringBody(s, i + 2, acc \o FromCharCode(8))
           ELSE IF e = "f" THEN ParseStringBody(s, i + 2, acc \o "\f")
           ELSE IF e = "n" THEN ParseStringBody(s, i + 2, acc \o "\n")
           ELSE IF e = "r" THEN ParseStringBody(s, i + 2, acc \o "\r")
           ELSE IF e = "t" THEN ParseStringBody(s, i + 2, acc \o "\t")
           ELSE IF /\ e = "u"
                   /\ i + 5 <= Len(s)
                   /\ \A k \in 2..5 : IsHex(CharAt(s, i + k))
           THEN LET code == HexValue(CharAt(s, i + 2)) * 4096 + HexValue(CharAt(s, i + 3)) * 256
                            + HexValue(CharAt(s, i + 4)) * 16 + HexValue(CharAt(s, i + 5))
                IN ParseStringBody(s, i + 6, acc \o FromCharCode(code))
           ELSE [ok |-> FALSE, pos |-> i, val |-> ""]
    ELSE IF CharCode[c] < 32 THEN [ok |-> FALSE, pos |-> i, val |-> ""]
    ELSE ParseStringBody(s, i + 1, acc \o c)

ParseString(s, i) ==
  IF i <= Len(s) /\ CharAt(s, i) = "\"" THEN ParseStringBody(s, i + 1, "")
  ELSE [ok |-> FALSE, pos |-> i, val |-> ""]

\* An assignment to a property: a key already there keeps its place.
PutEntry(entries, k, v) ==
  IF \E n \in 1..Len(entries) : entries[n].key = k
  THEN [n \in 1..Len(entries) |->
          IF entries[n].key = k THEN [key |-> k, value |-> v] ELSE entries[n]]
  ELSE Append(entries, [key |-> k, value |-> v])

\* The members of an object from index i (after "{" or ","), up to "}".
RECURSIVE ParseMembers(_, _, _)
ParseMembers(s, i, acc) ==
  LET k == ParseString(s, SkipWhite(s, i))
      colon == SkipWhite(s, k.pos)
      v == ParseString(s, SkipWhite(s, colon + 1))
      after == SkipWhite(s, v.pos)
  IN IF ~k.ok \/ colon > Len(s) \/ CharAt(s, colon) # ":" \/ ~v.ok \/ after > Len(s)
     THEN [ok |-> FALSE, pos |-> i, entries |-> <<>>]
     ELSE IF CharAt(s, after) = "}"
     THEN [ok |-> TRUE, pos |-> after + 1, entries |-> PutEntry(acc, k.val, v.val)]
     ELSE IF CharAt(s, after) = ","
     THEN ParseMembers(s, after + 1, PutEntry(acc, k.val, v.val))
     ELSE [ok |-> FALSE, pos |-> i, entries |-> <<>>]

ParseObject(s, i) ==
  LET j == SkipWhite(s, i + 1) IN
  IF j <= Len(s) /\ CharAt(s, j) = "}" THEN [ok |-> TRUE, pos |-> j + 1, entries |-> <<>>]
  ELSE ParseMembers(s, j, <<>>)

RECURSIVE SkipDigits(_, _)
SkipDigits(s, i) ==
  IF i <= Len(s) /\ CharAt(s, i) \in DigitChars THEN SkipDigits(s, i + 1) ELSE i

\* An integer: "-"? ( "0" | [1-9][0-9]* ).  pos = i when there is none.
NumberEnd(s, i) ==
  LET d == IF i <= Len(s) /\ CharAt(s, i) = "-" THEN i + 1 ELSE i IN
  IF d > Len(s) \/ CharAt(s, d) \notin DigitChars THEN i
  ELSE IF CharAt(s, d) = "0" THEN d + 1
  ELSE SkipDigits(s, d)

Literal(s, i, word) == i + Len(word) - 1 <= Len(s) /\ SubSeq(s, i, i + Len(word) - 1) = word

\* JSON.parse(text): [kind, entries, str].  kind is "error" for a SyntaxError.
JsonParse(text) ==
  LET i == SkipWhite(text, 1)
      bad == [kind |-> "error", entries |-> <<>>, str |-> ""]
      Done(kind, pos, entries, str) ==
        IF SkipWhite(text, pos) > Len(text)
        THEN [kind |-> kind, entries |-> entries, str |-> str]
        ELSE bad
  IN IF i > Len(text) THEN bad
     ELSE IF CharAt(text, i) = "{"
     THEN LET o == ParseObject(text, i) IN
          IF o.ok THEN Done("object", o.pos, o.entries, "") ELSE bad
     ELSE IF CharAt(text, i) = "\""
     THEN LET t == ParseString(text, i) IN
          IF t.ok THEN Done("string", t.pos, <<>>, t.val) ELSE bad
     ELSE IF Literal(text, i, "null") THEN Done("null", i + 4, <<>>, "")
     ELSE IF Literal(text, i, "true") THEN Done("boolean", i + 4, <<>>, "")
     ELSE IF Literal(text, i, "false") THEN Done("boolean", i + 5, <<>>, "")
     ELSE IF NumberEnd(text, i) > i THEN Done("number", NumberEnd(text, i), <<>>, "")
     ELSE bad

(***************************************************************************)
(* decodeSetupString.  The result is [ok, config, message, warnings]:      *)
(* ok = FALSE is the thrown Error with its message, ok = TRUE the returned *)
(* configuration (warnings is what console.warn receives).                 *)
(***************************************************************************)
RECURSIVE IndexString(_)
IndexString(n) ==
  IF n < 10 THEN CharAt("0123456789", n + 1)
  ELSE IndexString(n \div 10) \o CharAt("0123456789", (n % 10) + 1)

\* Object.entries of the parsed value: the members of an object, the indexed
\* characters of a string, nothing for a number or a boolean.
ObjectEntries(parsed) ==
  CASE parsed.kind = "object" -> parsed.entries
    [] parsed.kind = "string" ->
         [n \in 1..Len(parsed.str) |->
            [key |-> IndexString(n - 1), value |-> CharAt(parsed.str, n)]]
    [] OTHER -> <<>>

\* The results are [ok, config, message, warnings, console]: whether it
\* returned, the configuration returned, the message of the error thrown,
\* the warnings of the validation, and the lines written with console.warn.
Thrown(message) ==
  [ok |-> FALSE, config |-> <<>>,
   message |-> "Invalid setup configuration: " \o message, warnings |-> <<>>,
   console |-> <<>>]

\* The validation of the parsed configuration and the return.
Validated(config, validation) ==
  IF ~validation.isValid
  THEN [Thrown("Security validation failed: " \o Join(validation.errors, ", "))
          EXCEPT !.console = ConfigConsole(config)]
  ELSE [ok |-> TRUE, config |-> config, message |-> "", warnings |-> validation.warnings,
        console |-> ConfigConsole(config)
                    \o (IF validation.warnings # <<>>
                        THEN <<Log("console.warn",
                                   "Security warnings: " \o Join(validation.warnings, ", "))>>
                        ELSE <<>>)]

Parsed(parsed) ==
  IF parsed.kind = "error" THEN Thrown("Unexpected token in JSON")
  ELSE IF parsed.kind = "null" THEN Thrown("Cannot convert undefined or null to object")
  ELSE Validated(ObjectEntries(parsed), validateSetupConfig(ObjectEntries(parsed)))

\* A variant that returns whatever parses, without the validation.
decodeSetupStringUnvalidated(encodedConfig) ==
  LET parsed == JsonParse(Utf8String(Base64Decode(encodedConfig))) IN
  IF parsed.kind = "error" THEN Thrown("Unexpected token in JSON")
  ELSE IF parsed.kind = "null" THEN Thrown("Cannot convert undefined or null to object")
  ELSE [ok |-> TRUE, config |-> ObjectEntries(parsed), message |-> "", warnings |-> <<>>,
        console |-> <<>>]

decodeSetupString(encodedConfig) ==
  Parsed(JsonParse(Utf8String(Base64Decode(encodedConfig))))

(***************************************************************************)
(* analyzeSetupChanges and displaySetupDiff.                               *)
(***************************************************************************)
\* process.env[key] : "" when the variable is not set.
EnvGet(key) ==
  IF \E n \in 1..Len(env) : env[n].key = key
  THEN env[CHOOSE n \in 1..Len(env) : env[n].key = key].value
  ELSE ""

IsCredentialKey(key) ==
  StartsWith(key, "FASTLY_TOKEN") \/ StartsWith(key, "FASTLY_API_") \/ StartsWith(key, "FASTLY_KEY_")

IsExistingVar(key) ==
  StartsWith(key, "FASTLY_") /\ EnvGet(key) # "" /\ ~IsCredentialKey(key)

RECURSIVE ExistingVars(_)
ExistingVars(e) ==
  IF e = <<>> THEN <<>>
  ELSE (IF IsExistingVar(e[1].key) THEN <<e[1].key>> ELSE <<>>) \o ExistingVars(Tail(e))

RECURSIVE NewVars(_)
NewVars(config) ==
  IF config = <<>> THEN <<>>
  ELSE (IF config[1].value # "" /\ EnvGet(config[1].key) = ""
        THEN <<[key |-> config[1].key, value |-> config[1].value]>> ELSE <<>>)
       \o NewVars(Tail(config))

\* A variant that takes every entry set in the environment for changed.
RECURSIVE ChangedVarsUncompared(_)
ChangedVarsUncompared(config) ==
  IF config = <<>> THEN <<>>
  ELSE (IF config[1].value # "" /\ EnvGet(config[1].key) # ""
        THEN <<[key |-> config[1].key, oldValue |-> EnvGet(config[1].key),
                newValue |-> config[1].value]>>
        ELSE <<>>)
       \o ChangedVarsUncompared(Tail(config))

RECURSIVE ChangedVars(_)
ChangedVars(config) ==
  IF config = <<>> THEN <<>>
  ELSE (IF /\ config[1].value # ""
           /\ EnvGet(config[1].key) # ""
           /\ EnvGet(config[1].key) # config[1].value
        THEN <<[key |-> config[1].key, oldValue |-> EnvGet(config[1].key),
                newValue |-> config[1].value]>>
        ELSE <<>>)
       \o ChangedVars(Tail(config))

RECURSIVE UnchangedVars(_)
UnchangedVars(config) ==
  IF config = <<>> THEN <<>>
  ELSE (IF config[1].value # "" /\ EnvGet(config[1].key) = config[1].value
        THEN <<[key |-> config[1].key, value |-> config[1].value]>> ELSE <<>>)
       \o UnchangedVars(Tail(config))

analyzeSetupChanges(config) ==
  [hasExisting |-> ExistingVars(env) # <<>>,
   existingVars |-> ExistingVars(env),
   newVars |-> NewVars(config),
   changedVars |-> ChangedVars(config),
   unchangedVars |-> UnchangedVars(config)]

RECURSIVE NewLines(_)
NewLines(list) ==
  IF list = <<>> THEN <<>>
  ELSE <<Info("  + " \o list[1].key \o "=\"" \o list[1].value \o "\"")>> \o NewLines(Tail(list))

RECURSIVE ChangedLines(_)
ChangedLines(list) ==
  IF list = <<>> THEN <<>>
  ELSE << Info("  - " \o list[1].key \o "=\"" \o list[1].oldValue \o "\""),
          Info("  + " \o list[1].key \o "=\"" \o list[1].newValue \o "\"") >>
       \o ChangedLines(Tail(list))

RECURSIVE UnchangedLines(_)
UnchangedLines(list) ==
  IF list = <<>> THEN <<>>
  ELSE <<Info("    " \o list[1].key \o "=\"" \o list[1].value \o "\"")>>
       \o UnchangedLines(Tail(list))

\* What displaySetupDiff logs; chalk adds no character (no colours).
displaySetupDiff(analysis, allowExecution) ==
  (IF analysis.newVars # <<>>
   THEN <<Info("New environment variables to be set:")>>
        \o NewLines(analysis.newVars) \o <<Info("")>>
   ELSE <<>>)
  \o
  (IF analysis.changedVars # <<>>
   THEN <<Log("warn", "Environment variables that would be changed:")>>
        \o ChangedLines(analysis.changedVars) \o <<Info("")>>
   ELSE <<>>)
  \o
  (IF analysis.unchangedVars # <<>>
   THEN <<Info("Environment variables that would remain unchanged:")>>
        \o UnchangedLines(analysis.unchangedVars) \o <<Info("")>>
   ELSE <<>>)
  \o
  (IF allowExecution
   THEN IF analysis.changedVars # <<>>
        THEN << Log("warn", "Some environment variables would be overwritten."),
                Info("Use --force to proceed with automatic setup, or"),
                Info("copy the new/changed variables manually to avoid conflicts.") >>
        ELSE <<Info("Only new variables would be added. No existing variables would be changed.")>>
   ELSE << Info("Copy the new and changed variables above to your terminal or shell config."),
           Info("Skip any variables you want to keep at their current values.") >>)

(***************************************************************************)
(* generateExportCommands and validateExportCommands.                      *)
(***************************************************************************)
\* options.exportKeys is [given, keys]: given = FALSE when the option is absent.
NoExportKeys == [given |-> FALSE, keys |-> {}]

\* A variant that exports every key, whatever the allow-list.
shouldExportKeyAlways(exportKeys, envVarName) == TRUE

shouldExportKey(exportKeys, envVarName) ==
  IF ~exportKeys.given THEN TRUE ELSE envVarName \in exportKeys.keys

ExportCommand(envVarName, envVarValue) ==
  "export " \o envVarName \o "=\"" \o envVarValue \o "\""

RECURSIVE generateExportCommands(_, _)
generateExportCommands(config, exportKeys) ==
  IF config = <<>> THEN <<>>
  ELSE (IF config[1].value # "" /\ shouldExportKey(exportKeys, config[1].key)
        THEN <<ExportCommand(config[1].key, config[1].value)>>
        ELSE <<>>)
       \o generateExportCommands(Tail(config), exportKeys)

RECURSIVE SkipWhiteChars(_, _)
SkipWhiteChars(s, i) ==
  IF i <= Len(s) /\ CharAt(s, i) \in WhiteChars THEN SkipWhiteChars(s, i + 1) ELSE i

RECURSIVE SkipNameChars(_, _)
SkipNameChars(s, i) ==
  IF i <= Len(s) /\ CharAt(s, i) \in UpperChars \cup DigitChars \cup {"_"}
  THEN SkipNameChars(s, i + 1) ELSE i

\* A variant of the match whose pattern lacks the final $: the closing quote
\* is the first one after the opening quote, whatever follows it.
RECURSIVE QuoteFrom(_, _)
QuoteFrom(s, i) ==
  IF i > Len(s) \/ CharAt(s, i) = "\"" THEN i ELSE QuoteFrom(s, i + 1)

MatchExportUnanchored(command) ==
  LET none == [matched |-> FALSE, varName |-> "", varValue |-> ""]
      n1 == SkipWhiteChars(command, 7)
      n2 == SkipNameChars(command, n1)
      e1 == SkipWhiteChars(command, n2)
      q1 == SkipWhiteChars(command, e1 + 1)
      q2 == QuoteFrom(command, q1 + 1)
      L == Len(command)
  IN IF ~StartsWith(command, "export") \/ n1 = 7 THEN none
     ELSE IF n2 = n1 \/ CharAt(command, n1) \in DigitChars THEN none
     ELSE IF e1 > L \/ CharAt(command, e1) # "=" THEN none
     ELSE IF q1 >= L \/ CharAt(command, q1) # "\"" \/ q2 > L THEN none
     ELSE [matched |-> TRUE,
           varName |-> SubSeq(command, n1, n2 - 1),
           varValue |-> SubSeq(command, q1 + 1, q2 - 1)]

\* exportPattern.exec(command): the match of
\*   ^export\s+([A-Z_][A-Z0-9_]*)\s*=\s*"([^"]*)"$
\* as [matched, varName, varValue].
MatchExport(command) ==
  LET none == [matched |-> FALSE, varName |-> "", varValue |-> ""]
      n1 == SkipWhiteChars(command, 7)               \* after export\s+
      n2 == SkipNameChars(command, n1)               \* after the name
      e1 == SkipWhiteChars(command, n2)              \* at "="
      q1 == SkipWhiteChars(command, e1 + 1)          \* at the opening quote
      L == Len(command)
  IN IF ~StartsWith(command, "export") \/ n1 = 7 THEN none
     ELSE IF n2 = n1 \/ CharAt(command, n1) \in DigitChars THEN none
     ELSE IF e1 > L \/ CharAt(command, e1) # "=" THEN none
     ELSE IF q1 >= L \/ CharAt(command, q1) # "\"" \/ CharAt(command, L) # "\"" THEN none
     ELSE IF "\"" \in Chars(SubSeq(command, q1 + 1, L - 1)) THEN none
     ELSE [matched |-> TRUE,
           varName |-> SubSeq(command, n1, n2 - 1),
           varValue |-> SubSeq(command, q1 + 1, L - 1)]

CommandErrors(command) ==
  LET m == MatchExport(command) IN
  IF ~m.matched
  THEN <<"Invalid command format: '" \o command \o "' does not match safe export pattern">>
  ELSE (IF ~IsValidName(m.varName) THEN <<NameError(m.varName)>> ELSE <<>>)
       \o
       (IF Includes(m.varValue, "\"") \/ Includes(m.varValue, "\\") \/ Includes(m.varValue, "$")
        THEN <<"Unsafe value in " \o m.varName
               \o ": contains quotes, backslashes, or variable substitution">>
        ELSE <<>>)

CommandWarnings(command) ==
  LET m == MatchExport(command) IN
  IF m.matched /\ ~ShescapeThrows /\ ShescapeEscape(m.varValue) # m.varValue
  THEN <<"Value for " \o m.varName \o " contains shell metacharacters: " \o m.varValue>>
  ELSE <<>>

RECURSIVE CommandsErrors(_)
CommandsErrors(commands) ==
  IF commands = <<>> THEN <<>>
  ELSE CommandErrors(commands[1]) \o CommandsErrors(Tail(commands))

RECURSIVE CommandsWarnings(_)
CommandsWarnings(commands) ==
  IF commands = <<>> THEN <<>>
  ELSE CommandWarnings(commands[1]) \o CommandsWarnings(Tail(commands))

\* A variant that finds every list of commands valid.
validateExportCommandsLenient(commands) ==
  [isValid |-> TRUE, errors |-> <<>>, warnings |-> <<>>]

validateExportCommands(commands) ==
  LET errors == CommandsErrors(commands) IN
  [isValid |-> errors = <<>>, errors |-> errors, warnings |-> CommandsWarnings(commands)]

\* What validateExportCommands writes with console.warn: the notice of the
\* catch, once for every command that matches the pattern.
RECURSIVE CommandsConsole(_)
CommandsConsole(commands) ==
  IF commands = <<>> THEN <<>>
  ELSE (IF MatchExport(commands[1]).matched /\ ShescapeThrows
        THEN <<Log("console.warn", "Shescape value validation failed: " \o EngineError)>>
        ELSE <<>>)
       \o CommandsConsole(Tail(commands))

(***************************************************************************)
(* The bounds of the model.                                                *)
(***************************************************************************)
\* The longest value built from the alphabet.
MaxValueChars == 2

\* The most executeSetup invocations of a behaviour.
MaxRuns == 2

(***************************************************************************)
(* getShellConfigPath and writeToShellConfig.                              *)
(***************************************************************************)
HomeDir == "/home/user"

ZshrcPath == HomeDir \o "/.zshrc"

BashProfilePath == HomeDir \o "/.bash_profile"

BashrcPath == HomeDir \o "/.bashrc"

FishConfigPath == HomeDir \o "/.config/fish/config.fish"

ConfigPaths == {ZshrcPath, BashProfilePath, BashrcPath, FishConfigPath}

getShellConfigPath ==
  IF Includes(SHELL, "zsh") THEN ZshrcPath
  ELSE IF Includes(SHELL, "bash")
  THEN IF files[BashProfilePath].exists THEN BashProfilePath ELSE BashrcPath
  ELSE IF Includes(SHELL, "fish") THEN FishConfigPath
  ELSE BashrcPath

marker == "# bleurgh CLI environment variables"

BlockContent(commands) ==
  Join(<<"", marker>> \o commands \o <<"# End " \o marker, "">>, "\n")

\* A variant that appends without looking for the marker.
writeToShellConfigUnguarded(commands, appendFails) ==
  LET configPath == getShellConfigPath
      existing == files[configPath]
  IN IF appendFails
     THEN [files |-> files, logs |-> <<>>, threw |-> TRUE,
           message |-> "EACCES: permission denied, open '" \o configPath \o "'",
           appended |-> FALSE]
     ELSE [files |-> [files EXCEPT ![configPath] =
                        [exists |-> TRUE,
                         content |-> (IF existing.exists THEN existing.content ELSE "")
                                     \o BlockContent(commands)]],
           logs |-> <<Log("success", "Environment variables added to " \o configPath)>>,
           threw |-> FALSE, message |-> "", appended |-> TRUE]

\* writeToShellConfig(commands, logger), where appendFails says whether
\* fs.appendFileSync throws: [files, logs, threw, message, appended].
writeToShellConfig(commands, appendFails) ==
  LET configPath == getShellConfigPath
      existing == files[configPath]
  IN IF existing.exists /\ Includes(existing.content, marker)
     THEN [files |-> files,
           logs |-> <<Log("warn", "Configuration already exists in shell config file")>>,
           threw |-> FALSE, message |-> "", appended |-> FALSE]
     ELSE IF appendFails
     THEN [files |-> files, logs |-> <<>>, threw |-> TRUE,
           message |-> "EACCES: permission denied, open '" \o configPath \o "'",
           appended |-> FALSE]
     ELSE [files |-> [files EXCEPT ![configPath] =
                        [exists |-> TRUE,
                         content |-> (IF existing.exists THEN existing.content ELSE "")
                                     \o BlockContent(commands)]],
           logs |-> <<Log("success", "Environment variables added to " \o configPath)>>,
           threw |-> FALSE, message |-> "", appended |-> TRUE]

(***************************************************************************)
(* executeSetup.  The messages are the program's without their leading     *)
(* pictograph and the blanks after it.                                     *)
(* An invocation runs from one await to the next in one                    *)
(* step; pc says where it stands:                                          *)
(*   "idle"       not started                                              *)
(*   "stopAwait"  at await displaySetupDiff of the conflict stop           *)
(*   "showAwait"  at await displaySetupDiff before the synthesis           *)
(*   "writeAwait" at await writeToShellConfig                              *)
(*   "done"       returned normally                                        *)
(*   "exited"     process.exit(1)                                          *)
(* materialized says what was done with the export commands: "none",       *)
(* "printed", "written", "skipped" (marker found) or "failed".  repeat     *)
(* says that the invocation before this one had the same arguments, and    *)
(* prevMaterialized what that one did with its commands.                   *)
(***************************************************************************)
RECURSIVE ErrorLines(_)
ErrorLines(errors) ==
  IF errors = <<>> THEN <<>>
  ELSE <<Log("error", "  " \o errors[1])>> \o ErrorLines(Tail(errors))

RECURSIVE WarningLines(_)
WarningLines(warnings) ==
  IF warnings = <<>> THEN <<>>
  ELSE <<Log("warn", warnings[1])>> \o WarningLines(Tail(warnings))

RECURSIVE ConsoleLines(_)
ConsoleLines(commands) ==
  IF commands = <<>> THEN <<>>
  ELSE <<Log("console.log", "  " \o commands[1])>> \o ConsoleLines(Tail(commands))

IdleRun ==
  [pc |-> "idle", encodedConfig |-> "",
   options |-> [allowExecution |-> FALSE, force |-> FALSE, exportKeys |-> NoExportKeys],
   appendFails |-> FALSE, decoded |-> FALSE, config |-> <<>>,
   stopped |-> FALSE, diffShown |-> FALSE, exportCommands |-> <<>>, validated |-> FALSE,
   materialized |-> "none", writeMessage |-> "", logs |-> <<>>, exitCode |-> 0,
   repeat |-> FALSE, prevMaterialized |-> "none"]

\* A variant of the instructions that leaves out the export commands.
PrintInstructionsWithoutCommands(commands) ==
  << Info("Copy and paste the following commands to your terminal:"), Info(""),
     Info(""),
     Info("Or add them to your shell configuration file:"),
     Info("  " \o getShellConfigPath),
     Info(""),
     Info("After setting up, reload your shell or run:"),
     Info("  source ~/.zshrc  # or source ~/.bashrc"),
     Info(""),
     Info("Then test with: bleurgh --help") >>

\* The copy-paste instructions of the print mode.
PrintInstructions(commands) ==
  << Info("Copy and paste the following commands to your terminal:"), Info("") >>
  \o ConsoleLines(commands)
  \o << Info(""),
        Info("Or add them to your shell configuration file:"),
        Info("  " \o getShellConfigPath),
        Info(""),
        Info("After setting up, reload your shell or run:"),
        Info("  source ~/.zshrc  # or source ~/.bashrc"),
        Info(""),
        Info("Then test with: bleurgh --help") >>

\* A variant that materializes the commands whatever their validation says.
SynthesizeUnvalidated(r) ==
  \E exportCommands \in {generateExportCommands(r.config, r.options.exportKeys)} :
  \E commandValidation \in {validateExportCommands(exportCommands)} :
    LET withCommands == [r EXCEPT !.exportCommands = exportCommands,
                                    !.logs = @ \o CommandsConsole(exportCommands)]
        warned == WarningLines(commandValidation.warnings)
    IN IF ~r.options.allowExecution
       THEN /\ run' = [withCommands EXCEPT
                         !.validated = TRUE,
                         !.logs = @ \o warned \o PrintInstructions(exportCommands),
                         !.materialized = "printed", !.pc = "done"]
            /\ UNCHANGED files
       ELSE \E w \in {writeToShellConfig(exportCommands, r.appendFails)} :
            /\ run' = [withCommands EXCEPT
                         !.validated = TRUE,
                         !.logs = @ \o warned \o w.logs,
                         !.materialized = IF w.threw THEN "failed"
                                          ELSE IF w.appended THEN "written" ELSE "skipped",
                         !.writeMessage = w.message,
                         !.pc = "writeAwait"]
            /\ files' = w.files

\* From "Generate export commands" to the end of executeSetup or to the
\* await of writeToShellConfig: the invocation r continues.
Synthesize(r) ==
  \E exportCommands \in {generateExportCommands(r.config, r.options.exportKeys)} :
  \E commandValidation \in {validateExportCommands(exportCommands)} :
    LET withCommands == [r EXCEPT !.exportCommands = exportCommands,
                                    !.logs = @ \o CommandsConsole(exportCommands)]
        warned == WarningLines(commandValidation.warnings)
    IN IF ~commandValidation.isValid
       THEN /\ run' = [withCommands EXCEPT
                         !.logs = @ \o <<Log("error", "Export command validation failed:")>>
                                    \o ErrorLines(commandValidation.errors),
                         !.pc = "exited", !.exitCode = 1]
            /\ UNCHANGED files
       ELSE IF ~r.options.allowExecution
       THEN /\ run' = [withCommands EXCEPT
                         !.validated = TRUE,
                         !.logs = @ \o warned \o PrintInstructions(exportCommands),
                         !.materialized = "printed", !.pc = "done"]
            /\ UNCHANGED files
       ELSE \E w \in {writeToShellConfig(exportCommands, r.appendFails)} :
            /\ run' = [withCommands EXCEPT
                         !.validated = TRUE,
                         !.logs = @ \o warned \o w.logs,
                         !.materialized = IF w.threw THEN "failed"
                                          ELSE IF w.appended THEN "written" ELSE "skipped",
                         !.writeMessage = w.message,
                         !.pc = "writeAwait"]
            /\ files' = w.files

\* A variant of the conflict condition that does not look at force.
IsConflictIgnoringForce(analysis, options) ==
  analysis.hasExisting /\ analysis.changedVars # <<>>

\* The conflict condition: the invocation prints the diff and stops.
IsConflict(analysis, options) ==
  analysis.hasExisting /\ ~options.force /\ analysis.changedVars # <<>>

\* A variant that never shows the diff when nothing conflicts.
ShowsDiffNever(analysis) == FALSE

\* Existing variables and no conflict: the diff is shown before the synthesis.
ShowsDiff(analysis) ==
  analysis.hasExisting /\ analysis.changedVars = <<>>

\* executeSetup(encodedConfig, options, logger) up to its first await.
ExecuteSetup(encodedConfig, options, appendFails) ==
  /\ run.pc \in {"idle", "done", "exited"}
  /\ runs < MaxRuns
  /\ runs' = runs + 1
  /\ UNCHANGED <<SHELL, env, call, purge, invocations>>
  /\ \E d \in {decodeSetupString(encodedConfig)} :
     \E analysis \in {analyzeSetupChanges(d.config)} :
       LET start == [IdleRun EXCEPT
                       !.encodedConfig = encodedConfig, !.options = options,
                       !.appendFails = appendFails,
                       !.logs = <<Info("Starting bleurgh CLI setup...")>> \o d.console,
                       !.repeat = /\ run.pc # "idle"
                                  /\ run.encodedConfig = encodedConfig
                                  /\ run.options = options,
                       !.prevMaterialized = run.materialized]
           r == [start EXCEPT !.decoded = TRUE, !.config = d.config]
       IN IF ~d.ok
          THEN /\ run' = [start EXCEPT !.logs = @ \o <<Log("error", d.message)>>,
                                       !.pc = "exited", !.exitCode = 1]
               /\ UNCHANGED files
          ELSE IF IsConflict(analysis, options)
          THEN /\ run' = [r EXCEPT
                            !.logs = @ \o << Log("warn", "Analyzing current environment setup..."),
                                             Info("") >>
                                       \o displaySetupDiff(analysis, options.allowExecution),
                            !.stopped = TRUE, !.diffShown = TRUE, !.pc = "stopAwait"]
               /\ UNCHANGED files
          ELSE IF ShowsDiff(analysis)
          THEN /\ run' = [r EXCEPT
                            !.logs = @ \o << Info("Analyzing current environment setup..."),
                                             Info("") >>
                                       \o displaySetupDiff(analysis, options.allowExecution),
                            !.diffShown = TRUE, !.pc = "showAwait"]
               /\ UNCHANGED files
          ELSE Synthesize(r)

\* After await displaySetupDiff of the conflict stop: the return.
ResumeAfterStop ==
  /\ run.pc = "stopAwait"
  /\ run' = [run EXCEPT
               !.logs = @ \o (IF run.options.allowExecution
                              THEN << Info(""),
                                      Info("Use --force to proceed with automatic setup and overwrite conflicts.") >>
                              ELSE <<>>)
                          \o <<Info("")>>,
               !.pc = "done"]
  /\ UNCHANGED <<SHELL, env, files, runs, call, purge, invocations>>

\* After await displaySetupDiff when nothing conflicts: on to the synthesis.
ResumeAfterShow ==
  /\ run.pc = "showAwait"
  /\ Synthesize([run EXCEPT !.logs = @ \o <<Info("")>>])
  /\ UNCHANGED <<SHELL, env, runs, call, purge, invocations>>

\* A variant of the catch that reports the failure and nothing else.
SetupFailedWithoutCommands(message, commands) ==
  << Log("error", "Setup failed: " \o message) >>

\* The catch of the automatic setup mode: the error, then the commands for
\* manual application.
SetupFailed(message, commands) ==
  << Log("error", "Setup failed: " \o message),
     Info(""),
     Info("You can set up manually by running:") >>
  \o ConsoleLines(commands)

\* A variant that also sets the variables of the configuration in the live
\* environment.
ResumeAfterWriteExporting ==
  /\ run.pc = "writeAwait"
  /\ run' = [run EXCEPT !.pc = IF run.materialized # "failed" THEN "done" ELSE "exited",
                         !.exitCode = IF run.materialized # "failed" THEN 0 ELSE 1]
  /\ env' = run.config
  /\ UNCHANGED <<SHELL, files, runs, call, purge, invocations>>

\* After await writeToShellConfig: the success messages, or the catch.
ResumeAfterWrite ==
  /\ run.pc = "writeAwait"
  /\ run' = IF run.materialized # "failed"
            THEN [run EXCEPT
                    !.logs = @ \o << Log("success", "Setup complete!"),
                                     Info(""),
                                     Log("warn", "Important: Reload your shell or run:"),
                                     Info("  source " \o getShellConfigPath),
                                     Info(""),
                                     Info("Then test with: bleurgh --help") >>,
                    !.pc = "done"]
            ELSE [run EXCEPT
                    !.logs = @ \o SetupFailed(run.writeMessage, run.exportCommands),
                    !.pc = "exited", !.exitCode = 1]
  /\ UNCHANGED <<SHELL, env, files, runs, call, purge, invocations>>

(***************************************************************************)
(* generateSetupString.                                                    *)
(***************************************************************************)
defaultFastlyKeys ==
  << "FASTLY_DEV_SERVICE_IDS", "FASTLY_DEV_SERVICE_NAMES",
     "FASTLY_TEST_SERVICE_IDS", "FASTLY_TEST_SERVICE_NAMES",
     "FASTLY_PROD_SERVICE_IDS", "FASTLY_PROD_SERVICE_NAMES",
     "FASTLY_DEFAULT_KEYS", "FASTLY_DEV_DEFAULT_KEYS",
     "FASTLY_TEST_DEFAULT_KEYS", "FASTLY_PROD_DEFAULT_KEYS" >>

\* environmentKeysToExport is [given, keys]: given = FALSE when it is absent.
NoKeysToExport == [given |-> FALSE, keys |-> <<>>]

RECURSIVE CollectFromEnvironment(_, _)
CollectFromEnvironment(keysToExport, config) ==
  IF keysToExport = <<>> THEN config
  ELSE CollectFromEnvironment(
         Tail(keysToExport),
         IF EnvGet(keysToExport[1]) # ""
         THEN PutEntry(config, keysToExport[1], EnvGet(keysToExport[1]))
         ELSE config)

\* The exportConfig of buildConfigFromEnvironment.
buildConfigFromEnvironment(environmentKeysToExport) ==
  CollectFromEnvironment(
    IF environmentKeysToExport.given THEN environmentKeysToExport.keys ELSE defaultFastlyKeys,
    <<>>)

\* The string generateSetupString returns.
generateSetupString(environmentKeysToExport) ==
  encodeSetupString(buildConfigFromEnvironment(environmentKeysToExport))

(***************************************************************************)
(* The purge client (src/src/core.ts): the lookup of the services and keys *)
(* in the environment, the purge calls and the processing of their         *)
(* outcomes.  An option that is absent is "" (services) or FALSE.          *)
(***************************************************************************)
\* env.toUpperCase() for the three environments.
EnvUpper(e) == CASE e = "dev" -> "DEV" [] e = "test" -> "TEST" [] e = "prod" -> "PROD"

NonEmptyString(s) == s # ""

\* text.split(',').map(s => s.trim()).filter(Boolean)
TrimmedElements(text) ==
  LET pieces == SplitComma(text)
  IN SelectSeq([i \in 1..Len(pieces) |-> Trim(pieces[i])], NonEmptyString)

\* The elements of the first variable, from the i-th pattern on, that yields any.
RECURSIVE FirstYield(_, _)
FirstYield(patterns, i) ==
  IF i > Len(patterns) THEN <<>>
  ELSE IF TrimmedElements(EnvGet(patterns[i])) # <<>>
  THEN TrimmedElements(EnvGet(patterns[i]))
  ELSE FirstYield(patterns, i + 1)

ServiceIdPatterns(e) ==
  << "FASTLY_" \o EnvUpper(e) \o "_SERVICE_IDS",
     EnvUpper(e) \o "_SERVICE_IDS",
     "SERVICE_IDS_" \o EnvUpper(e) >>

\* getServiceIds(env, servicesOverride, throwOnEmpty): [threw, message, ids].
getServiceIds(e, servicesOverride, throwOnEmpty) ==
  IF Trim(servicesOverride) # ""
  THEN IF TrimmedElements(servicesOverride) = <<>>
       THEN [threw |-> TRUE, ids |-> <<>>,
             message |-> "Services parameter cannot be empty or contain only whitespace"]
       ELSE [threw |-> FALSE, ids |-> TrimmedElements(servicesOverride), message |-> ""]
  ELSE IF FirstYield(ServiceIdPatterns(e), 1) # <<>>
  THEN [threw |-> FALSE, ids |-> FirstYield(ServiceIdPatterns(e), 1), message |-> ""]
  ELSE IF throwOnEmpty
  THEN [threw |-> TRUE, ids |-> <<>>,
        message |-> "No service IDs configured for environment: " \o e \o ". Set FASTLY_"
                    \o EnvUpper(e)
                    \o "_SERVICE_IDS environment variable or use --services parameter."]
  ELSE [threw |-> FALSE, ids |-> <<>>, message |-> ""]

\* getDefaultKeys(env): the keys of the environment, else the global ones.
getDefaultKeys(e) ==
  IF EnvGet("FASTLY_" \o EnvUpper(e) \o "_DEFAULT_KEYS") # ""
  THEN TrimmedElements(EnvGet("FASTLY_" \o EnvUpper(e) \o "_DEFAULT_KEYS"))
  ELSE TrimmedElements(EnvGet("FASTLY_DEFAULT_KEYS"))

ServiceNamePatterns(e) ==
  << "FASTLY_" \o EnvUpper(e) \o "_SERVICE_NAMES",
     EnvUpper(e) \o "_SERVICE_NAMES",
     "SERVICE_NAMES_" \o EnvUpper(e) >>

getServiceNames(e) == FirstYield(ServiceNamePatterns(e), 1)

\* getServiceDisplayName: the name at the index of the first occurrence of
\* the ID, when there is one.
getServiceDisplayName(serviceId, serviceNames, serviceIds) ==
  LET index == IF \E i \in 1..Len(serviceIds) : serviceIds[i] = serviceId
               THEN CHOOSE i \in 1..Len(serviceIds) :
                      /\ serviceIds[i] = serviceId
                      /\ \A j \in 1..(i - 1) : serviceIds[j] # serviceId
               ELSE 0
  IN IF index # 0 /\ index <= Len(serviceNames)
     THEN serviceNames[index] \o " (" \o serviceId \o ")"
     ELSE serviceId

\* isUrlPurge(userKeys)
isUrlPurge(userKeys) == Len(userKeys) > 0 /\ StartsWith(userKeys[1], "https://")

\* The keys of a surrogate-key purge: the default keys, then the user's.
AllKeys(e, userKeys) == getDefaultKeys(e) \o userKeys

\* A variant that asks for the token before it looks at dryRun.
PurgeCallTokenFirst(serviceId, url, keys, dryStatus, dryRun) ==
  IF EnvGet("FASTLY_TOKEN") = ""
  THEN [serviceId |-> serviceId, state |-> "rejected", fetched |-> FALSE, url |-> "", keys |-> <<>>,
        status |-> "", id |-> "", reason |-> "Error: FASTLY_TOKEN is required"]
  ELSE IF dryRun
  THEN [serviceId |-> serviceId, state |-> "fulfilled", fetched |-> FALSE, url |-> "", keys |-> <<>>,
        status |-> dryStatus, id |-> "", reason |-> ""]
  ELSE [serviceId |-> serviceId, state |-> "pending", fetched |-> TRUE, url |-> url, keys |-> keys,
        status |-> "", id |-> "", reason |-> ""]

\* A purge call is [serviceId, state, fetched, url, keys, status, id, reason]:
\* state is "pending" while its fetch is in flight, then "fulfilled" or
\* "rejected"; fetched says that it made a network request, to url with the
\* surrogate keys; status and id are those of the value it fulfils with,
\* reason is String(reason) of a rejection.
PurgeCall(serviceId, url, keys, dryStatus, dryRun) ==
  IF dryRun
  THEN [serviceId |-> serviceId, state |-> "fulfilled", fetched |-> FALSE, url |-> "", keys |-> <<>>,
        status |-> dryStatus, id |-> "", reason |-> ""]
  ELSE IF EnvGet("FASTLY_TOKEN") = ""
  THEN [serviceId |-> serviceId, state |-> "rejected", fetched |-> FALSE, url |-> "", keys |-> <<>>,
        status |-> "", id |-> "", reason |-> "Error: FASTLY_TOKEN is required"]
  ELSE [serviceId |-> serviceId, state |-> "pending", fetched |-> TRUE, url |-> url, keys |-> keys,
        status |-> "", id |-> "", reason |-> ""]

purgeService(serviceId, keys, dryRun) ==
  PurgeCall(serviceId, "https://api.fastly.com/service/" \o serviceId \o "/purge", keys,
            "dry-run", dryRun)

purgeAllService(serviceId, dryRun) ==
  PurgeCall(serviceId, "https://api.fastly.com/service/" \o serviceId \o "/purge_all",
            <<>>, "dry-run-all", dryRun)

\* url.replace("https://", "") of a URL that starts with it.
purgeUrlService(serviceId, url, dryRun) ==
  PurgeCall(serviceId, "https://api.fastly.com/purge/" \o SubSeq(url, 9, Len(url)), <<>>,
            "dry-run-url", dryRun)

\* A variant that makes the URL purge call once for every service.
executePurgeOperationsPerService(serviceIds, userKeys, options) ==
  IF options.all
  THEN [i \in 1..Len(serviceIds) |-> purgeAllService(serviceIds[i], options.dryRun)]
  ELSE IF options.url
  THEN [i \in 1..Len(serviceIds) |->
          purgeUrlService(serviceIds[i], userKeys[1], options.dryRun)]
  ELSE [i \in 1..Len(serviceIds) |->
          purgeService(serviceIds[i], AllKeys(options.env, userKeys), options.dryRun)]

\* executePurgeOperations up to its await: the calls it has started, in the
\* order of the array given to Promise.allSettled.
executePurgeOperations(serviceIds, userKeys, options) ==
  IF options.all
  THEN [i \in 1..Len(serviceIds) |-> purgeAllService(serviceIds[i], options.dryRun)]
  ELSE IF options.url
  THEN <<purgeUrlService("global", userKeys[1], options.dryRun)>>
  ELSE [i \in 1..Len(serviceIds) |->
          purgeService(serviceIds[i], AllKeys(options.env, userKeys), options.dryRun)]

\* logOperationDetails
logOperationDetails(options, serviceIds, serviceSource, serviceNames, userKeys) ==
  << Info("Target environment: " \o options.env),
     Info("Service IDs (from " \o serviceSource \o "): " \o Join(serviceIds, ", ")) >>
  \o (IF serviceNames # <<>>
      THEN <<Info("Service names: "
                  \o Join([i \in 1..Len(serviceIds) |->
                             getServiceDisplayName(serviceIds[i], serviceNames, serviceIds)],
                          ", "))>>
      ELSE <<>>)
  \o (IF options.all THEN <<Info("Operation: Purge ALL cache for services")>>
      ELSE IF options.url THEN <<Info("Operation: Purge URL - " \o userKeys[1])>>
      ELSE <<Info("User keys: " \o Join(userKeys, ", "))>>
           \o (IF getDefaultKeys(options.env) # <<>>
               THEN <<Info("Default keys: " \o Join(getDefaultKeys(options.env), ", "))>>
               ELSE <<>>)
           \o <<Info("All keys to purge: " \o Join(AllKeys(options.env, userKeys), ", "))>>)
  \o (IF options.dryRun
      THEN <<Log("warn", "DRY RUN MODE - No actual purging will occur")>>
      ELSE <<>>)

\* logSuccessResult: logDryRunResult or logActualResult for a fulfilled call.
logSuccessResult(serviceId, result, options, userKeys) ==
  LET idSuffix == IF result.id # "" THEN " (ID: " \o result.id \o ")" ELSE ""
      url == IF Len(userKeys) > 0 THEN userKeys[1] ELSE ""
  IN IF options.dryRun
     THEN IF result.status = "dry-run-all" \/ options.all
          THEN Info("[" \o serviceId \o "] Would purge ALL cache")
          ELSE IF result.status = "dry-run-url" \/ options.url
          THEN IF serviceId = "global" THEN Info("Would purge URL globally: " \o url)
               ELSE Info("[" \o serviceId \o "] Would purge URL: " \o url)
          ELSE Info("[" \o serviceId \o "] Would purge keys: "
                    \o Join(AllKeys(options.env, userKeys), ", "))
     ELSE IF options.all
          THEN Log("success", "[" \o serviceId \o "] Purged ALL cache successfully" \o idSuffix)
          ELSE IF options.url
          THEN IF serviceId = "global"
               THEN Log("success", "Purged URL globally: " \o url \o idSuffix)
               ELSE Log("success", "[" \o serviceId \o "] Purged URL successfully: "
                                   \o url \o idSuffix)
          ELSE Log("success", "[" \o serviceId \o "] Purged successfully" \o idSuffix)

\* logSummary
logSummary(options, totalServices, successCount) ==
  IF options.dryRun
  THEN IF options.url
       THEN Info("Dry run completed. Would have attempted to purge URL globally (affects all services).")
       ELSE Info("Dry run completed. Would have attempted to "
                 \o (IF options.all THEN "purge ALL cache for" ELSE "purge keys from")
                 \o " " \o IndexString(totalServices) \o " services.")
  ELSE IF options.url THEN Info("URL purge completed globally (affects all services)")
  ELSE Info("Purge completed: " \o IndexString(successCount) \o "/"
            \o IndexString(totalServices) \o " services successful")

Succeeded(serviceId) == [serviceId |-> serviceId, success |-> TRUE]

Failed(serviceId, reason) == [serviceId |-> serviceId, success |-> FALSE, error |-> reason]

\* A variant that reports the outcome of the first call for every service.
processResultsFromFirst(results, serviceIds, options, userKeys) ==
  [success |-> results[1].state = "fulfilled",
   results |-> [i \in 1..Len(serviceIds) |->
                  IF results[1].state = "fulfilled" THEN Succeeded(serviceIds[i])
                  ELSE Failed(serviceIds[i], results[1].reason)],
   logs |-> <<logSummary(options, Len(serviceIds), 0)>>]

\* processResults(results, serviceIds, options, logger, userKeys), where
\* results are the settled calls in the order of the array of calls:
\* [success, results, logs].
processResults(results, serviceIds, options, userKeys) ==
  IF options.url
  THEN IF results[1].state = "fulfilled"
       THEN [success |-> TRUE,
             results |-> [i \in 1..Len(serviceIds) |-> Succeeded(serviceIds[i])],
             logs |-> << logSuccessResult("global", results[1], options, userKeys),
                         logSummary(options, Len(serviceIds), Len(serviceIds)) >>]
       ELSE [success |-> FALSE,
             results |-> [i \in 1..Len(serviceIds) |->
                            Failed(serviceIds[i], results[1].reason)],
             logs |-> << Log("error", "URL purge failed: " \o results[1].reason),
                         logSummary(options, Len(serviceIds), 0) >>]
  ELSE LET fulfilled == { i \in 1..Len(results) : results[i].state = "fulfilled" }
       IN [success |-> fulfilled = 1..Len(results),
           results |-> [i \in 1..Len(results) |->
                          IF i \in fulfilled THEN Succeeded(serviceIds[i])
                          ELSE Failed(serviceIds[i], results[i].reason)],
           logs |-> [i \in 1..Len(results) |->
                       IF i \in fulfilled
                       THEN logSuccessResult(serviceIds[i], results[i], options, userKeys)
                       ELSE Log("error", "[" \o serviceIds[i] \o "] " \o results[i].reason)]
                    \o <<logSummary(options, Len(serviceIds), Cardinality(fulfilled))>>]

(***************************************************************************)
(* executePurge.  pc says where the invocation stands:                     *)
(*   "idle"     not started                                                *)
(*   "waiting"  at await executePurgeOperations (Promise.allSettled)       *)
(*   "done"     returned [success, results]                                *)
(*   "threw"    rejected with the error message                            *)
(* givenKeys are the keys of the caller, userKeys those it goes on with;   *)
(* settled lists the calls whose fetch has completed, in that order.       *)
(***************************************************************************)
IdlePurge ==
  [pc |-> "idle", givenKeys |-> <<>>, userKeys |-> <<>>,
   options |-> [env |-> "dev", services |-> "", all |-> FALSE, dryRun |-> FALSE,
                url |-> FALSE],
   serviceIds |-> <<>>, calls |-> <<>>, settled |-> <<>>,
   success |-> FALSE, results |-> <<>>, message |-> "", logs |-> <<>>]

\* executePurge(userKeys, options, logger) up to its await.
ExecutePurge(userKeys, options) ==
  /\ purge.pc = "idle"
  /\ UNCHANGED <<SHELL, env, files, run, runs, call, invocations>>
  /\ LET isUrl == isUrlPurge(userKeys)
         ignoring == isUrl /\ Len(userKeys) > 1
         warned == IF ignoring
                   THEN <<Log("warn", "URL detected: " \o userKeys[1]
                                      \o " - ignoring additional keys: "
                                      \o Join(Tail(userKeys), ", "))>>
                   ELSE <<>>
         keys == IF ignoring THEN <<userKeys[1]>> ELSE userKeys
         updatedOptions == [options EXCEPT !.url = isUrl]
         found == getServiceIds(options.env, options.services, TRUE)
         serviceSource == IF options.services # "" THEN "command line --services"
                          ELSE "environment variables for " \o options.env
         serviceNames == IF options.services # "" THEN <<>>
                         ELSE getServiceNames(options.env)
         started == [IdlePurge EXCEPT !.givenKeys = userKeys, !.userKeys = keys,
                                      !.options = updatedOptions]
         Throws(message, logs) ==
           [started EXCEPT !.pc = "threw", !.message = message, !.logs = logs]
     IN purge' =
          IF options.all /\ Len(userKeys) > 0
          THEN Throws("Cannot use --all flag with specific keys", <<>>)
          ELSE IF ~options.all /\ ~isUrl /\ Len(userKeys) = 0
          THEN Throws("At least one surrogate key is required (or use --all flag)", warned)
          ELSE IF found.threw THEN Throws(found.message, warned)
          ELSE [started EXCEPT
                  !.pc = "waiting",
                  !.serviceIds = found.ids,
                  !.calls = executePurgeOperations(found.ids, keys, updatedOptions),
                  !.logs = warned \o logOperationDetails(updatedOptions, found.ids,
                                                         serviceSource, serviceNames, keys)]

\* What the fetch of a call ends with.
FetchOutcomes == {"ok", "http", "network"}

\* The call after its fetch ended: the value it returns or the error it throws.
Settle(c, outcome) ==
  CASE outcome = "ok" -> [c EXCEPT !.state = "fulfilled", !.status = "ok", !.id = "p1"]
    [] outcome = "http" ->
         [c EXCEPT !.state = "rejected",
                   !.reason = "Error: Service " \o c.serviceId
                              \o ": HTTP 500: Internal Server Error"]
    [] outcome = "network" ->
         [c EXCEPT !.state = "rejected",
                   !.reason = "Error: Service " \o c.serviceId \o ": fetch failed"]

\* The fetch of the i-th call completes and the call settles.
FetchSettles(i, outcome) ==
  /\ purge.pc = "waiting"
  /\ i \in 1..Len(purge.calls)
  /\ purge.calls[i].state = "pending"
  /\ purge' = [purge EXCEPT !.calls[i] = Settle(@, outcome), !.settled = Append(@, i)]
  /\ UNCHANGED <<SHELL, env, files, run, runs, call, invocations>>

\* Every call has settled: executePurge processes the results and returns.
PurgeReturns ==
  /\ purge.pc = "waiting"
  /\ \A i \in 1..Len(purge.calls) : purge.calls[i].state # "pending"
  /\ \E r \in {processResults(purge.calls, purge.serviceIds, purge.options,
                                purge.userKeys)} :
       purge' = [purge EXCEPT !.pc = "done", !.success = r.success,
                              !.results = r.results, !.logs = @ \o r.logs]
  /\ UNCHANGED <<SHELL, env, files, run, runs, call, invocations>>

(***************************************************************************)
(* The inputs of the model.                                                *)
(***************************************************************************)
ValueAlphabet == {"a", " ", ",", ";", "|", "&", "$", "(", BackTick, "\f", "\"", "\\"}

RECURSIVE StringsUpTo(_)
StringsUpTo(n) ==
  IF n = 0 THEN {""}
  ELSE LET shorter == StringsUpTo(n - 1) IN
       shorter \cup { s \o c : s \in shorter, c \in ValueAlphabet }

SampleValues ==
  { "dev-svc-1,dev-svc-2", "Dev Frontend,Dev API", "service$(whoami)", "a../b", "x>>y",
    "curl-cache", "a\nb", "#a", "a b_c-1" }

Values == StringsUpTo(MaxValueChars) \cup SampleValues

Keys ==
  {"FASTLY_DEV_SERVICE_IDS", "FASTLY_DEV_SERVICE_NAMES", "FASTLY_DEFAULT_KEYS", "FASTLY_FOO"}

Entry(k, v) == [key |-> k, value |-> v]

SampleConfigs ==
  { <<>>,
    <<Entry("PATH", "/malicious/path")>>,
    << Entry("FASTLY_DEV_SERVICE_IDS", "dev-svc-1,dev-svc-2"),
       Entry("FASTLY_DEV_SERVICE_NAMES", "Dev Frontend,Dev API"),
       Entry("FASTLY_DEFAULT_KEYS", "global,always") >>,
    << Entry("FASTLY_DEV_SERVICE_IDS", "dev-svc-1"),
       Entry("FASTLY_TEST_SERVICE_IDS", ""),
       Entry("FASTLY_TOKEN", "tok-2") >>,
    << Entry("FASTLY_DEV_SERVICE_IDS", "a;b"), Entry("fastly_x", "v"),
       Entry("FASTLY_PROD_SERVICE_IDS", "p 1") >> }

Configs == { <<Entry(k, v)>> : k \in Keys, v \in Values } \cup SampleConfigs

ExportKeysChoices ==
  { NoExportKeys,
    [given |-> TRUE, keys |-> {"FASTLY_DEV_SERVICE_IDS", "FASTLY_STAGE_SERVICE_IDS"}] }

\* Strings given to decodeSetupString that no encodeSetupString produced.
ForeignStrings ==
  { "", "invalid-base64", "aW52YWxpZCBqc29u", "bnVsbA==", "NQ==", "dHJ1ZQ==", "ImFiIg==",
    "e30", "eyJGQVNUTFlfRk9PIjoiYSJ", "eyJGQVNUTFlfRk9PIjoiYSJ9",
    "eyJGQVNUTFlfRk9PIjoiYSIsIkZBU1RMWV9GT08iOiJiIn0=" }

\* Export commands and near misses of one.
CommandStrings ==
  { ExportCommand("FASTLY_TOKEN", v) : v \in Values }
  \cup
  { "export FASTLY_TOKEN=test-token-123",
    "set FASTLY_TOKEN=\"test-token\"",
    "export FASTLY_TOKEN=\"test\" && rm -rf /",
    "export FASTLY_TOKEN=\"test\";",
    "export FASTLY_TOKEN=\"test\" ",
    "export FASTLY_TOKEN=\"test\"\n",
    " export FASTLY_TOKEN=\"test\"",
    "export INVALID_VAR=\"value\"",
    "export FASTLY_=\"value\"",
    "export FASTLY_a=\"value\"",
    "export 1FASTLY_A=\"value\"",
    "export _FASTLY_A=\"value\"",
    "export FASTLY_A='value'",
    "export FASTLY_A=\"",
    "export FASTLY_A=\"\"",
    "export FASTLY_A",
    "export",
    "exportFASTLY_A=\"value\"",
    "EXPORT FASTLY_A=\"value\"",
    "export  FASTLY_A=\"value\"",
    "export\tFASTLY_A=\"value\"",
    "export FASTLY_A =\"value\"",
    "export FASTLY_A= \"value\"",
    "export FASTLY_A=\"line1\nline2\"" }

PairCommands ==
  { "export FASTLY_DEV_SERVICE_IDS=\"dev-svc-1,dev-svc-2\"",
    "export FASTLY_TOKEN=test-token-123",
    "export FASTLY_A = \"value\"",
    "export PATH=\"/malicious/path\"" }

CommandLists ==
  {<<>>} \cup { <<c>> : c \in CommandStrings }
  \cup { <<c1, c2>> : c1 \in PairCommands, c2 \in PairCommands }

(***************************************************************************)
(* Calls of the exported functions, one per behaviour.                     *)
(***************************************************************************)
NoCall ==
  [op |-> "none", config |-> <<>>, text |-> "", commands |-> <<>>,
   exportKeys |-> NoExportKeys, keysToExport |-> NoKeysToExport]

Quiet == UNCHANGED <<SHELL, env, files, run, runs, purge, invocations>>

ValidateSetupConfigCall ==
  /\ call.op = "none"
  /\ \E config \in Configs :
       call' = [NoCall EXCEPT !.op = "validateSetupConfig", !.config = config]
  /\ Quiet

\* decodeSetupString(encodeSetupString(config))
RoundTripCall ==
  /\ call.op = "none"
  /\ \E config \in Configs :
       call' = [NoCall EXCEPT !.op = "roundTrip", !.config = config,
                              !.text = encodeSetupString(config)]
  /\ Quiet

DecodeSetupStringCall ==
  /\ call.op = "none"
  /\ \E text \in ForeignStrings :
       call' = [NoCall EXCEPT !.op = "decodeSetupString", !.text = text]
  /\ Quiet

GenerateExportCommandsCall ==
  /\ call.op = "none"
  /\ \E config \in Configs : \E exportKeys \in ExportKeysChoices :
       call' = [NoCall EXCEPT !.op = "generateExportCommands", !.config = config,
                              !.exportKeys = exportKeys,
                              !.commands = generateExportCommands(config, exportKeys)]
  /\ Quiet

ValidateExportCommandsCall ==
  /\ call.op = "none"
  /\ \E commands \in CommandLists :
       call' = [NoCall EXCEPT !.op = "validateExportCommands", !.commands = commands]
  /\ Quiet

\* What the call returned (or threw), computed from its arguments.
Decoded == decodeSetupString(call.text)

Validation == validateSetupConfig(call.config)

CommandValidation == validateExportCommands(call.commands)

NoFiles == [p \in ConfigPaths |-> [exists |-> FALSE, content |-> ""]]

ApiShells == {"/bin/bash", "/usr/bin/pwsh"}

ApiInit ==
  /\ SHELL \in ApiShells
  /\ env = <<>>
  /\ files = NoFiles
  /\ run = IdleRun
  /\ runs = 0
  /\ call = NoCall
  /\ purge = IdlePurge
  /\ invocations = <<>>

ApiNext ==
  \/ ValidateSetupConfigCall
  \/ RoundTripCall
  \/ DecodeSetupStringCall
  \/ GenerateExportCommandsCall
  \/ ValidateExportCommandsCall

(***************************************************************************)
(* The executeSetup invocations: one after the other, each in a process    *)
(* with the same environment and the same shell config files.              *)
(***************************************************************************)
ConfigDev == <<Entry("FASTLY_DEV_SERVICE_IDS", "new-1")>>

ConfigDevTest ==
  <<Entry("FASTLY_DEV_SERVICE_IDS", "new-1"), Entry("FASTLY_TEST_SERVICE_IDS", "t-1")>>

ConfigToken == <<Entry("FASTLY_TOKEN", "tok-2")>>

ConfigQuote == <<Entry("FASTLY_FOO", "a\"b")>>

ConfigNewline == <<Entry("FASTLY_FOO", "a\nb")>>

SetupConfigs == {ConfigDev, ConfigDevTest, ConfigToken, ConfigQuote}

SetupStrings == { encodeSetupString(c) : c \in SetupConfigs } \cup {"invalid-base64"}

Options(allowExecution, force, exportKeys) ==
  [allowExecution |-> allowExecution, force |-> force, exportKeys |-> exportKeys]

OnlyDevKeys == [given |-> TRUE, keys |-> {"FASTLY_DEV_SERVICE_IDS"}]

\* The arguments of an invocation, and whether fs.appendFileSync fails in it.
SetupInputs ==
  { [encodedConfig |-> encodeSetupString(c),
     options |-> Options(allowExecution, force, NoExportKeys),
     appendFails |-> appendFails] :
      c \in {ConfigDev, ConfigDevTest, ConfigToken},
      allowExecution \in BOOLEAN, force \in BOOLEAN, appendFails \in BOOLEAN }
  \cup
  { [encodedConfig |-> encodeSetupString(ConfigDevTest),
     options |-> Options(allowExecution, FALSE, OnlyDevKeys),
     appendFails |-> FALSE] : allowExecution \in BOOLEAN }
  \cup
  { [encodedConfig |-> encodeSetupString(ConfigQuote),
     options |-> Options(allowExecution, FALSE, NoExportKeys),
     appendFails |-> FALSE] : allowExecution \in BOOLEAN }
  \cup
  { [encodedConfig |-> encodeSetupString(ConfigNewline),
     options |-> Options(TRUE, FALSE, NoExportKeys),
     appendFails |-> FALSE] }
  \cup
  { [encodedConfig |-> "invalid-base64",
     options |-> Options(FALSE, FALSE, NoExportKeys),
     appendFails |-> FALSE] }

SetupEnvs ==
  { <<>>,
    <<Entry("FASTLY_DEV_SERVICE_IDS", "old-1")>>,
    <<Entry("FASTLY_TOKEN", "tok-1")>>,
    <<Entry("FASTLY_TOKEN", "tok-1"), Entry("FASTLY_DEV_SERVICE_IDS", "new-1")>> }

SetupShells == {"/bin/bash", "/bin/zsh", "/usr/bin/pwsh"}

UserFiles ==
  [NoFiles EXCEPT ![BashProfilePath] = [exists |-> TRUE, content |-> "alias ll='ls -l'\n"],
                  ![ZshrcPath] = [exists |-> TRUE, content |-> ""]]

SetupInit ==
  /\ SHELL \in SetupShells
  /\ env \in SetupEnvs
  /\ files \in {NoFiles, UserFiles}
  /\ run = IdleRun
  /\ runs = 0
  /\ call = NoCall
  /\ purge = IdlePurge
  /\ invocations = <<>>

StartSetup ==
  \E in \in SetupInputs :
    /\ in.appendFails => in.options.allowExecution
    /\ ExecuteSetup(in.encodedConfig, in.options, in.appendFails)

SetupNext ==
  \/ StartSetup
  \/ ResumeAfterStop
  \/ ResumeAfterShow
  \/ ResumeAfterWrite

(***************************************************************************)
(* generateSetupString, called once in an environment.                     *)
(***************************************************************************)
GenEnvKeys == <<"FASTLY_TOKEN", "FASTLY_DEV_SERVICE_IDS", "FASTLY_CUSTOM_SERVICE_IDS">>

GenEnvValues == {"", "v1", "v2"}

\* The environments: each key unset ("") or set to one of two values.
GenEnvs ==
  { [n \in 1..Len(GenEnvKeys) |-> Entry(GenEnvKeys[n], f[n])] :
      f \in [1..Len(GenEnvKeys) -> GenEnvValues] }

KeysToExportChoices ==
  { NoKeysToExport,
    [given |-> TRUE, keys |-> <<>>],
    [given |-> TRUE, keys |-> <<"FASTLY_CUSTOM_SERVICE_IDS">>],
    [given |-> TRUE, keys |-> <<"FASTLY_DEV_SERVICE_IDS", "FASTLY_CUSTOM_SERVICE_IDS">>],
    [given |-> TRUE, keys |-> <<"FASTLY_TOKEN">>],
    [given |-> TRUE, keys |-> <<"FASTLY_DEV_SERVICE_IDS", "FASTLY_TOKEN">>] }

GenerateSetupStringCall ==
  /\ call.op = "none"
  /\ \E keysToExport \in KeysToExportChoices :
       call' = [NoCall EXCEPT !.op = "generateSetupString", !.keysToExport = keysToExport,
                              !.text = generateSetupString(keysToExport)]
  /\ Quiet

GenInit ==
  /\ SHELL = "/bin/bash"
  /\ env \in GenEnvs
  /\ files = NoFiles
  /\ run = IdleRun
  /\ runs = 0
  /\ call = NoCall
  /\ purge = IdlePurge
  /\ invocations = <<>>

GenNext == GenerateSetupStringCall

vars == <<SHELL, env, files, run, runs, call, purge, invocations>>

ApiSpec == ApiInit /\ [][ApiNext]_vars

SetupSpec == SetupInit /\ [][SetupNext]_vars

GenSpec == GenInit /\ [][GenNext]_vars

(***************************************************************************)
(* The properties of the exported functions.                               *)
(***************************************************************************)
\* What JSON.parse made of the decoded text, before the validation.
ParsedText == JsonParse(Utf8String(Base64Decode(call.text)))

ParsedVerdict == validateSetupConfig(ObjectEntries(ParsedText))

(* C1: decodeSetupString either throws or returns a configuration that     *)
(* validateSetupConfig finds valid; when the verdict on the parsed         *)
(* configuration is failing it throws, and the message embeds the          *)
(* validation errors joined together.                                      *)
C1_DecodeReturnsOnlyValid ==
  call.op \in {"roundTrip", "decodeSetupString"} =>
    /\ Decoded.ok => validateSetupConfig(Decoded.config).isValid
    /\ (ParsedText.kind \notin {"error", "null"} /\ ~ParsedVerdict.isValid) =>
         /\ ~Decoded.ok
         /\ Includes(Decoded.message, Join(ParsedVerdict.errors, ", "))

C1_RejectedAtDecode ==
  /\ call.op = "roundTrip"
  /\ Len(call.config) = 3
  /\ Len(ParsedVerdict.errors) >= 2
  /\ ~Decoded.ok
  /\ Includes(Decoded.message, "Security validation failed: ")

\* The injection content of a value: $( , a backtick, ; | & or a control byte.
CarriesInjection(value) ==
  \/ Includes(value, "$(")
  \/ Chars(value) \cap {BackTick, ";", "|", "&"} # {}
  \/ Chars(value) \cap ControlChars # {}

(* C2: a configuration with an entry whose key is valid and whose value    *)
(* carries injection content is invalid for validateSetupConfig, and       *)
(* decoding its encoding throws with "Security validation failed" in the   *)
(* message, whatever the role of the key.                                  *)
C2_InjectionRejected ==
  ( /\ call.op \in {"validateSetupConfig", "roundTrip"}
    /\ \E n \in 1..Len(call.config) :
         IsValidName(call.config[n].key) /\ CarriesInjection(call.config[n].value) )
  => /\ ~Validation.isValid
     /\ call.op = "roundTrip" =>
          ~Decoded.ok /\ Includes(Decoded.message, "Security validation failed")

C2_ControlByteInDisplayName ==
  /\ call.op = "roundTrip"
  /\ call.config = <<Entry("FASTLY_DEV_SERVICE_NAMES", "a\f")>>
  /\ ShescapeThrows
  /\ ~Decoded.ok

(* C3: for a configuration that passes validateSetupConfig and any         *)
(* allow-list, every command generateExportCommands produces matches the   *)
(* export pattern and validateExportCommands finds the list valid.         *)
C3_ExportShape ==
  (call.op = "generateExportCommands" /\ Validation.isValid) =>
    /\ \A n \in 1..Len(call.commands) : MatchExport(call.commands[n]).matched
    /\ CommandValidation.isValid

DisplayNameKey(key) == EndsWith(key, "_SERVICE_NAMES")

\* No security pattern hits the value, and the only escaping it requires
\* is the one its role allows: of spaces for a display name, none otherwise.
NoPatternHit(key, value) ==
  /\ ~dangerousChars(value) /\ ~commandSubstitution(value)
  /\ ~redirection(value) /\ ~pathTraversal(value)
  /\ ~hasControlCharacters(value)
  /\ ShescapeEscape(value) = (IF DisplayNameKey(key) THEN ReplaceSpaces(value) ELSE value)

MeetsContract(config) ==
  /\ \A n \in 1..Len(config) :
       /\ IsValidName(config[n].key)
       /\ Len(config[n].value) <= MaxValueLength
       /\ validateFieldFormat(config[n].key, config[n].value) = <<>>
       /\ NoPatternHit(config[n].key, config[n].value)
  /\ \A m, n \in 1..Len(config) : config[m].key = config[n].key => m = n

(* C7: for a configuration whose keys satisfy the naming contract and      *)
(* whose values satisfy the format of their role and hit no security       *)
(* pattern (display names with spaces included), decoding the encoding     *)
(* returns a configuration equal to it.                                    *)
C7_RoundTrip ==
  (call.op = "roundTrip" /\ MeetsContract(call.config)) =>
    Decoded.ok /\ Decoded.config = call.config

NameChars == UpperChars \cup LowerChars \cup DigitChars \cup {" ", "_", "-"}

\* Every comma-separated element is made of letters, digits, spaces,
\* underscores and hyphens, and is not blank.
ElementsPlain(value) ==
  \A n \in 1..Len(SplitComma(value)) :
    /\ Trim(SplitComma(value)[n]) # ""
    /\ Chars(SplitComma(value)[n]) \subseteq NameChars

(* C8: for an entry with a display-name key, validateSetupConfig accepts   *)
(* a value whose elements are made of letters, digits, spaces, underscores *)
(* and hyphens, and rejects a value that requires any escaping other than  *)
(* that of spaces.                                                         *)
C8_DisplayNames ==
  ( /\ call.op = "validateSetupConfig"
    /\ Len(call.config) = 1
    /\ IsValidName(call.config[1].key)
    /\ DisplayNameKey(call.config[1].key) )
  => /\ ElementsPlain(call.config[1].value) => Validation.isValid
     /\ ShescapeEscape(call.config[1].value) # ReplaceSpaces(call.config[1].value)
          => ~Validation.isValid

\* export NAME="VALUE" exactly: one space, no other white space.
ExactShape(command) ==
  /\ StartsWith(command, "export ")
  /\ \E i \in 9..(Len(command) - 2) :
       /\ CharAt(command, i) = "="
       /\ IsValidName(SubSeq(command, 8, i - 1))
       /\ CharAt(command, i + 1) = "\""
       /\ CharAt(command, Len(command)) = "\""
       /\ Chars(SubSeq(command, i + 2, Len(command) - 1)) \cap {"\"", "\\", "$"} = {}

\* export, white space, NAME, = with optional white space on either side,
\* "VALUE" with the closing quote as the last character.
LooseShape(command) ==
  /\ StartsWith(command, "export")
  /\ \E i \in 8..(Len(command) - 2) :
       /\ CharAt(command, i) = "="
       /\ TrimLeft(SubSeq(command, 7, i - 1)) # SubSeq(command, 7, i - 1)
       /\ IsValidName(Trim(SubSeq(command, 7, i - 1)))
       /\ LET quoted == TrimLeft(SubSeq(command, i + 1, Len(command))) IN
            /\ Len(quoted) >= 2
            /\ CharAt(quoted, 1) = "\"" /\ CharAt(quoted, Len(quoted)) = "\""
            /\ Chars(SubSeq(quoted, 2, Len(quoted) - 1)) \cap {"\"", "\\", "$"} = {}

(* C10: validateExportCommands reports invalid whenever some command is    *)
(* not exactly export NAME="VALUE", NAME a FASTLY_ identifier, VALUE free  *)
(* of double quote, backslash and dollar sign, the closing quote last.     *)
C10_ExactShapeOrInvalid ==
  ( /\ call.op = "validateExportCommands"
    /\ \E n \in 1..Len(call.commands) : ~ExactShape(call.commands[n]) )
  => ~CommandValidation.isValid

(* C10, as the code has it: validateExportCommands reports valid exactly   *)
(* when every command is export, white space, NAME, = with optional white  *)
(* space around it, and "VALUE" ending the command, NAME a FASTLY_         *)
(* identifier and VALUE free of double quote, backslash and dollar sign;   *)
(* the empty list is valid.                                                *)
C10_LooseShapeOrInvalid ==
  call.op = "validateExportCommands" =>
    /\ CommandValidation.isValid
         <=> \A n \in 1..Len(call.commands) : LooseShape(call.commands[n])
    /\ call.commands = <<>> => CommandValidation.isValid

C10_ChainedSyntaxRejected ==
  /\ call.op = "validateExportCommands"
  /\ call.commands = <<"export FASTLY_TOKEN=\"test\" && rm -rf /">>
  /\ ~CommandValidation.isValid

(* C9: the setup string generateSetupString returns decodes to a           *)
(* configuration without a FASTLY_TOKEN entry, whatever the environment    *)
(* and the keys to export.                                                 *)
C9_NoTokenInSetupString ==
  call.op = "generateSetupString" =>
    \A n \in 1..Len(ObjectEntries(ParsedText)) :
      ObjectEntries(ParsedText)[n].key # "FASTLY_TOKEN"

(***************************************************************************)
(* The properties of executeSetup.                                         *)
(***************************************************************************)
\* What the diff and summary views show: the logger's info and warn lines
\* of an invocation that displayed the diff.
ViewLines == SelectSeq(run.logs, LAMBDA l : l.level \in {"info", "warn"})

(* C4: existingVars holds no token or credential key (a key that starts    *)
(* with FASTLY_TOKEN, FASTLY_API_ or FASTLY_KEY_), and no line of the diff *)
(* and summary views of executeSetup shows such a key of the live          *)
(* environment or its live value, also when the configuration carries the  *)
(* key.                                                                    *)
C4_NoCredentialLeak ==
  /\ \A n \in 1..Len(analyzeSetupChanges(run.config).existingVars) :
       ~IsCredentialKey(analyzeSetupChanges(run.config).existingVars[n])
  /\ run.diffShown =>
       \A n \in 1..Len(ViewLines) : \A m \in 1..Len(env) :
         IsCredentialKey(env[m].key) =>
           /\ ~Includes(ViewLines[n].msg, env[m].key)
           /\ ~Includes(ViewLines[n].msg, env[m].value)

(* C5: when the decoded configuration has a changed entry and force is     *)
(* false, executeSetup shows the diff and stops: no export command is      *)
(* made, nothing is written, and it returns without a failure exit.        *)
C5_ConflictStops ==
  ( /\ run.decoded
    /\ ~run.options.force
    /\ ChangedVars(run.config) # <<>> )
  => /\ run.stopped /\ run.diffShown
     /\ run.pc \in {"stopAwait", "done"}
     /\ run.exportCommands = <<>>
     /\ run.materialized = "none"
     /\ run.exitCode = 0

\* The marker lines of a file: the lines that open a block.
MarkerBlocks(content) ==
  Cardinality({ i \in 1..(Len(content) - Len(marker) - 1) :
                  SubSeq(content, i, i + Len(marker) + 1) = "\n" \o marker \o "\n" })

AlreadyExistsWarning == Log("warn", "Configuration already exists in shell config file")

(* C6: when executeSetup in write mode has written its block and is run    *)
(* again with the same arguments, the second run appends nothing and logs  *)
(* the warning, and the shell config file holds exactly one marker block.  *)
C6_SecondWriteIsNoOp ==
  ( /\ run.pc \in {"writeAwait", "done", "exited"}
    /\ run.repeat
    /\ run.options.allowExecution
    /\ run.prevMaterialized = "written" )
  => /\ run.materialized = "skipped"
     /\ \E n \in 1..Len(run.logs) : run.logs[n] = AlreadyExistsWarning
     /\ MarkerBlocks(files[getShellConfigPath].content) = 1

C6_WrittenThenSkipped ==
  /\ run.pc = "done"
  /\ run.repeat
  /\ run.options.allowExecution
  /\ run.prevMaterialized = "written"
  /\ run.materialized = "skipped"
  /\ files[getShellConfigPath].content # ""

(***************************************************************************)
(* Malformed input of decodeSetupString.                                   *)
(***************************************************************************)
\* Canonical base64: characters of the alphabet in groups of four, the last
\* group closed with at most two "=".
PaddingLength(s) ==
  IF EndsWith(s, "==") THEN 2 ELSE IF EndsWith(s, "=") THEN 1 ELSE 0

WellFormedBase64(s) ==
  /\ Len(s) % 4 = 0
  /\ \A i \in 1..(Len(s) - PaddingLength(s)) : CharAt(s, i) \in Chars(Base64Alphabet)

\* The decoded text is JSON of the expected structure: an object.
ExpectedStructure(s) == JsonParse(Utf8String(Base64Decode(s))).kind = "object"

Malformed(s) == ~WellFormedBase64(s) \/ ~ExpectedStructure(s)

\* C11: decodeSetupString of a malformed input (outside the base64 alphabet,
\* truncated, or not decoding to JSON of the expected structure) throws an
\* error whose message starts with "Invalid setup configuration".
C11_MalformedThrows ==
  (call.op = "decodeSetupString" /\ Malformed(call.text))
    => (~Decoded.ok /\ StartsWith(Decoded.message, "Invalid setup configuration"))

(***************************************************************************)
(* The conflict stop and the force flag.                                   *)
(***************************************************************************)
\* The invocation has left its first step (the decoding succeeded).
Analysed == run.decoded /\ run.pc # "idle"

Changed == analyzeSetupChanges(run.config).changedVars

\* The invocation went through synthesis, command validation and (when the
\* commands are valid) materialization.
Proceeded ==
  /\ ~run.stopped
  /\ run.exportCommands = generateExportCommands(run.config, run.options.exportKeys)
  /\ IF validateExportCommands(run.exportCommands).isValid
     THEN run.validated /\ run.materialized \in {"printed", "written", "skipped", "failed"}
     ELSE run.pc = "exited" /\ run.exitCode = 1

\* Scenario E: FASTLY_DEV_SERVICE_IDS is old-1 in the environment and new-1
\* in the proposed configuration.
ScenarioE ==
  Analysed /\ run.config = ConfigDev /\ EnvGet("FASTLY_DEV_SERVICE_IDS") = "old-1"

\* C12: with changed entries and force = true executeSetup does not stop at
\* the diff but goes on to synthesis, command validation and
\* materialization; in scenario E the entry is classified as changed with
\* its old and new value, the run stops without force and proceeds with it.
C12_ForceProceeds ==
  /\ (Analysed /\ run.options.force /\ Changed # <<>>) => Proceeded
  /\ ScenarioE =>
       /\ Changed = <<[key |-> "FASTLY_DEV_SERVICE_IDS", oldValue |-> "old-1",
                       newValue |-> "new-1"]>>
       /\ run.options.force => Proceeded
       /\ ~run.options.force =>
            run.stopped /\ run.exportCommands = <<>> /\ run.materialized = "none"

C12_ForcedOverConflict ==
  /\ ScenarioE
  /\ run.options.force
  /\ run.materialized = "written"
  /\ run.pc = "done"

(***************************************************************************)
(* Runs without a changed entry.                                           *)
(***************************************************************************)
DiffHeader == Info("Analyzing current environment setup...")

\* Every export command printed on the console comes after the diff header.
DiffBeforeCommands ==
  \A i \in 1..Len(run.logs) :
    run.logs[i].level = "console.log"
      => \E j \in 1..(i - 1) : run.logs[j] = DiffHeader

\* At the await of the diff nothing has been synthesized or materialized.
NothingMaterialized == run.exportCommands = <<>> /\ run.materialized = "none"

\* C13 as stated: with no changed entry executeSetup proceeds to synthesis
\* and materialization without force, and in every such run the diff is
\* shown through the logger before any command is materialized.
C13_DiffAlwaysShown ==
  (Analysed /\ Changed = <<>>) =>
    /\ run.diffShown /\ DiffBeforeCommands
    /\ IF run.pc = "showAwait" THEN NothingMaterialized ELSE Proceeded

\* C13 as amended: with no changed entry executeSetup proceeds to synthesis
\* and materialization without force; the diff is shown, before any command
\* is materialized, exactly in the runs whose live environment holds a
\* non-credential FASTLY_ variable.
C13_DiffShownWhenExisting ==
  (Analysed /\ Changed = <<>>) =>
    /\ run.diffShown = analyzeSetupChanges(run.config).hasExisting
    /\ run.diffShown => DiffBeforeCommands
    /\ IF run.pc = "showAwait" THEN NothingMaterialized ELSE Proceeded

C13_DiffThenWritten ==
  /\ Analysed /\ Changed = <<>>
  /\ ~run.options.force
  /\ run.diffShown
  /\ run.materialized = "written"
  /\ run.pc = "done"

(***************************************************************************)
(* The two materialization modes.                                          *)
(***************************************************************************)
InLogs(line) == \E i \in 1..Len(run.logs) : run.logs[i] = line

PrintHeader == Info("Copy and paste the following commands to your terminal:")

\* The run logged that it added the block to the shell config file.
LoggedFileWrite == \E i \in 1..Len(run.logs) : run.logs[i].level = "success"

\* What a run with allowExecution = false has done with its commands.
PrintModeRun ==
  (run.pc # "idle" /\ ~run.options.allowExecution) =>
    /\ run.materialized \in {"none", "printed"}
    /\ ~LoggedFileWrite
    /\ run.materialized = "printed" =>
         /\ run.exportCommands = generateExportCommands(run.config, run.options.exportKeys)
         /\ \A k \in 1..Len(run.exportCommands) :
              InLogs(Log("console.log", "  " \o run.exportCommands[k]))
         /\ InLogs(Info("  " \o getShellConfigPath))

\* No run both prints the copy-paste instructions and writes the file block.
ModesExclusive ==
  /\ InLogs(PrintHeader) <=> run.materialized = "printed"
  /\ InLogs(PrintHeader) => (~run.options.allowExecution /\ ~LoggedFileWrite)
  /\ run.materialized \in {"written", "skipped", "failed"} => run.options.allowExecution

\* C14: with allowExecution = false no step of executeSetup changes a file;
\* at materialization it prints every synthesized export command and the
\* resolved shell config path; no run both prints the copy-paste
\* instructions and writes the file block.
C14_PrintModeTouchesNoFile ==
  /\ [](PrintModeRun /\ ModesExclusive)
  /\ [][~run'.options.allowExecution => files' = files]_vars

C14_PrintedTwoCommands ==
  /\ run.pc = "done"
  /\ ~run.options.allowExecution
  /\ run.materialized = "printed"
  /\ Len(run.exportCommands) = 2
  /\ \E p \in ConfigPaths : files[p].exists

(***************************************************************************)
(* Failure of the append in write mode.                                    *)
(***************************************************************************)
\* The index of the first log line equal to line, 0 when there is none.
IndexInLogs(line) ==
  IF InLogs(line) THEN CHOOSE i \in 1..Len(run.logs) :
                         /\ run.logs[i] = line
                         /\ \A j \in 1..(i - 1) : run.logs[j] # line
  ELSE 0

AppendFailed == run.materialized = "failed" /\ run.pc = "exited"

\* C15: when appending to the shell config file fails in write mode,
\* executeSetup logs an error with the underlying failure message through
\* logger.error, then prints every export command again for manual
\* application, and logs no success message.
C15_AppendFailureDegrades ==
  AppendFailed =>
    LET failure == Log("error", "Setup failed: " \o run.writeMessage) IN
    /\ run.options.allowExecution
    /\ run.writeMessage # ""
    /\ InLogs(failure)
    /\ \A k \in 1..Len(run.exportCommands) :
         \E i \in (IndexInLogs(failure) + 1)..Len(run.logs) :
           run.logs[i] = Log("console.log", "  " \o run.exportCommands[k])
    /\ ~LoggedFileWrite
    /\ run.exitCode = 1

C15_FailedWithTwoCommands ==
  /\ AppendFailed
  /\ Len(run.exportCommands) = 2

(***************************************************************************)
(* The scan of validateSetupConfig.                                        *)
(***************************************************************************)
\* The errors validateSetupConfig reports for the n-th entry on its own.
ErrorsAlone(config, n) == validateSetupConfig(<<config[n]>>).errors

BadEntries(config) == { n \in 1..Len(config) : ErrorsAlone(config, n) # <<>> }

InErrors(errors, e) == \E i \in 1..Len(errors) : errors[i] = e

\* C16: validateSetupConfig scans every entry: the errors list holds the
\* findings of every bad entry of the configuration, whatever precedes it,
\* and the error decodeSetupString throws embeds all of them.
C16_FullScan ==
  /\ call.op = "validateSetupConfig" =>
       \A n \in BadEntries(call.config) :
         \A i \in 1..Len(ErrorsAlone(call.config, n)) :
           InErrors(Validation.errors, ErrorsAlone(call.config, n)[i])
  /\ (call.op = "roundTrip" /\ BadEntries(call.config) # {}) =>
       /\ ~Decoded.ok
       /\ \A n \in BadEntries(call.config) :
            \A i \in 1..Len(ErrorsAlone(call.config, n)) :
              Includes(Decoded.message, ErrorsAlone(call.config, n)[i])

C16_SeveralBadEntries ==
  /\ call.op = "roundTrip"
  /\ Cardinality(BadEntries(call.config)) >= 3
  /\ ~Decoded.ok

(***************************************************************************)
(* analyzeSetupChanges, called once on a configuration in an environment.  *)
(***************************************************************************)
DiffKeys == <<"FASTLY_DEV_SERVICE_IDS", "FASTLY_TOKEN", "FASTLY_FOO">>

\* The environments: each key unset or empty ("") or set to one of two values.
DiffEnvs ==
  { [n \in 1..Len(DiffKeys) |-> Entry(DiffKeys[n], f[n])] :
      f \in [1..Len(DiffKeys) -> {"", "v1", "v2"}] }

\* The entries of the keys chosen by f, in the order of DiffKeys.
RECURSIVE ChosenEntries(_, _)
ChosenEntries(f, n) ==
  IF n > Len(DiffKeys) THEN <<>>
  ELSE (IF f[n] = "absent" THEN <<>> ELSE <<Entry(DiffKeys[n], f[n])>>)
       \o ChosenEntries(f, n + 1)

\* The configurations: each key absent, or proposed with "", "v1" or "v2".
DiffConfigs ==
  { ChosenEntries(f, 1) : f \in [1..Len(DiffKeys) -> {"absent", "", "v1", "v2"}] }

AnalyzeSetupChangesCall ==
  /\ call.op = "none"
  /\ \E config \in DiffConfigs :
       call' = [NoCall EXCEPT !.op = "analyzeSetupChanges", !.config = config]
  /\ Quiet

Analysis == analyzeSetupChanges(call.config)

DiffInit ==
  /\ SHELL = "/bin/bash"
  /\ env \in DiffEnvs
  /\ files = NoFiles
  /\ run = IdleRun
  /\ runs = 0
  /\ call = NoCall
  /\ purge = IdlePurge
  /\ invocations = <<>>

DiffNext == AnalyzeSetupChangesCall

DiffSpec == DiffInit /\ [][DiffNext]_vars

\* How many elements of the list have the key.
Occurrences(list, key) == Cardinality({ i \in 1..Len(list) : list[i].key = key })

\* C17: analyzeSetupChanges puts every key with a non-empty proposed value
\* in exactly one of newVars, changedVars, unchangedVars and a key with an
\* empty value in none: new iff the environment has no value for the key,
\* changed iff it has another value (old and new value kept), unchanged iff
\* it has the same value.
C17_Partition ==
  call.op = "analyzeSetupChanges" =>
    \A n \in 1..Len(call.config) :
      LET key == call.config[n].key
          value == call.config[n].value
          live == EnvGet(key)
          asNew == Occurrences(Analysis.newVars, key)
          asChanged == Occurrences(Analysis.changedVars, key)
          asUnchanged == Occurrences(Analysis.unchangedVars, key)
      IN /\ asNew + asChanged + asUnchanged = (IF value = "" THEN 0 ELSE 1)
         /\ value # "" =>
              /\ asNew = 1 <=> live = ""
              /\ asChanged = 1 <=> (live # "" /\ live # value)
              /\ asUnchanged = 1 <=> live = value
              /\ asNew = 1 =>
                   \E i \in 1..Len(Analysis.newVars) :
                     Analysis.newVars[i] = [key |-> key, value |-> value]
              /\ asChanged = 1 =>
                   \E i \in 1..Len(Analysis.changedVars) :
                     Analysis.changedVars[i] =
                       [key |-> key, oldValue |-> live, newValue |-> value]
              /\ asUnchanged = 1 =>
                   \E i \in 1..Len(Analysis.unchangedVars) :
                     Analysis.unchangedVars[i] = [key |-> key, value |-> value]

C17_OneOfEach ==
  /\ call.op = "analyzeSetupChanges"
  /\ Len(Analysis.newVars) = 1
  /\ Len(Analysis.changedVars) = 1
  /\ Len(Analysis.unchangedVars) = 1

(***************************************************************************)
(* Verdicts and warnings.                                                  *)
(***************************************************************************)
\* Every element of hits is in the warnings of the result and not in its errors.
OnlyWarned(hits, result) ==
  \A i \in 1..Len(hits) :
    InErrors(result.warnings, hits[i]) /\ ~InErrors(result.errors, hits[i])

\* The entries validateSetupConfig runs its security checks on.
CheckedEntries(config) ==
  { n \in 1..Len(config) : config[n].value # "" /\ IsValidName(config[n].key) }

C18_ValidWithEscapingWarning ==
  /\ call.op = "validateExportCommands"
  /\ CommandValidation.isValid
  /\ CommandValidation.warnings # <<>>

(***************************************************************************)
(* executePurge, called once in an environment.                            *)
(***************************************************************************)
PurgeEnvs ==
  { << Entry("FASTLY_TOKEN", token), Entry("FASTLY_DEV_SERVICE_IDS", ids),
       Entry("FASTLY_DEV_SERVICE_NAMES", extras[1]), Entry("FASTLY_DEFAULT_KEYS", extras[2]) >> :
      token \in {"", "tok"},
      ids \in {"", "svc-1", "svc-1, svc-2", "svc-1,svc-2,svc-3"},
      extras \in { <<"", "">>, <<"One,Two", "global">> } }

PurgeKeys ==
  { <<>>, <<"k1">>, <<"k1", "k2">>, <<"https://example.com/a">>,
    <<"https://example.com/a", "k2", "k3">> }

PurgeOptions ==
  { [env |-> "dev", services |-> services, all |-> all, dryRun |-> dryRun, url |-> FALSE] :
      services \in {"", "svc-8, svc-9"}, all \in BOOLEAN, dryRun \in BOOLEAN }

StartPurge ==
  \E userKeys \in PurgeKeys : \E options \in PurgeOptions : ExecutePurge(userKeys, options)

CompleteFetch ==
  \E i \in 1..Len(purge.calls) : \E outcome \in FetchOutcomes : FetchSettles(i, outcome)

PurgeInit ==
  /\ SHELL = "/bin/bash"
  /\ env \in PurgeEnvs
  /\ files = NoFiles
  /\ run = IdleRun
  /\ runs = 0
  /\ call = NoCall
  /\ purge = IdlePurge
  /\ invocations = <<>>

PurgeNext == StartPurge \/ CompleteFetch \/ PurgeReturns

PurgeSpec == PurgeInit /\ [][PurgeNext]_vars

\* The invocation passed its checks and started its purge calls.
Purging == purge.pc \in {"waiting", "done"}

\* The services the invocation is configured with.
ConfiguredServices == getServiceIds(purge.options.env, purge.options.services, TRUE).ids

\* The calls reach the network: no dry run, and a token in the environment.
RealPurge == ~purge.options.dryRun /\ EnvGet("FASTLY_TOKEN") # ""

\* C19: a surrogate-key or --all purge starts one purge call per configured
\* service, all of them before any completes; a failed call leaves the
\* others to complete; the results list has one entry per service in the
\* configured order, with success true iff that service's own call
\* succeeded, whatever order the calls completed in; the overall success
\* flag is true iff every service succeeded.
C19_OneResultPerService ==
  (Purging /\ ~purge.options.url) =>
    /\ purge.serviceIds = ConfiguredServices
    /\ Len(purge.calls) = Len(purge.serviceIds)
    /\ \A i \in 1..Len(purge.calls) :
         /\ purge.calls[i].serviceId = purge.serviceIds[i]
         /\ RealPurge => purge.calls[i].fetched
    /\ purge.pc = "done" =>
         /\ \A i \in 1..Len(purge.calls) : purge.calls[i].state \in {"fulfilled", "rejected"}
         /\ Len(purge.results) = Len(purge.serviceIds)
         /\ \A i \in 1..Len(purge.results) :
              /\ purge.results[i].serviceId = purge.serviceIds[i]
              /\ purge.results[i].success <=> purge.calls[i].state = "fulfilled"
         /\ purge.success <=> \A i \in 1..Len(purge.results) : purge.results[i].success

C19_LastFailedFirst ==
  /\ purge.pc = "done"
  /\ ~purge.options.url
  /\ Len(purge.serviceIds) = 3
  /\ purge.settled = <<3, 1, 2>>
  /\ ~purge.results[3].success
  /\ purge.results[1].success
  /\ purge.results[2].success


\* The first key of the caller starts with https://.
UrlGiven == isUrlPurge(purge.givenKeys)

\* The purge calls that made a network request.
Fetched == { i \in 1..Len(purge.calls) : purge.calls[i].fetched }

\* The logger of executePurge was called with the line.
InPurgeLogs(line) == \E i \in 1..Len(purge.logs) : purge.logs[i] = line

\* The warning about the keys after the URL.
IgnoredKeysWarning ==
  Log("warn", "URL detected: " \o purge.givenKeys[1] \o " - ignoring additional keys: "
              \o Join(Tail(purge.givenKeys), ", "))

\* C20: when the first key starts with https://, an executePurge that
\* passes its argument checks is in URL mode: it starts exactly one purge
\* call, to the global URL endpoint and for the first key alone, however
\* many services are configured; it goes on with the first key only, and
\* when further keys were given it first logs the warning that names them;
\* the results list has one entry per configured service, in the
\* configured order, each with the outcome of that single call, and the
\* overall success flag is that outcome.
C20_UrlModeOneRequest ==
  (Purging /\ UrlGiven) =>
    /\ purge.options.url
    /\ purge.serviceIds = ConfiguredServices
    /\ Len(purge.calls) = 1
    /\ purge.calls[1].serviceId = "global"
    /\ Cardinality(Fetched) <= 1
    /\ RealPurge =>
         /\ Fetched = {1}
         /\ purge.calls[1].url
              = "https://api.fastly.com/purge/" \o SubSeq(purge.givenKeys[1], 9, Len(purge.givenKeys[1]))
         /\ purge.calls[1].keys = <<>>
    /\ purge.userKeys = <<purge.givenKeys[1]>>
    /\ Len(purge.givenKeys) > 1 => purge.logs[1] = IgnoredKeysWarning
    /\ Len(purge.givenKeys) = 1 => ~InPurgeLogs(IgnoredKeysWarning)
    /\ InPurgeLogs(Info("Operation: Purge URL - " \o purge.givenKeys[1]))
    /\ purge.pc = "done" =>
         /\ Len(purge.results) = Len(purge.serviceIds)
         /\ \A i \in 1..Len(purge.results) :
              /\ purge.results[i].serviceId = purge.serviceIds[i]
              /\ purge.results[i].success <=> purge.calls[1].state = "fulfilled"
              /\ ~purge.results[i].success => purge.results[i].error = purge.calls[1].reason
         /\ purge.success <=> purge.calls[1].state = "fulfilled"

C20_OneFailureForThreeServices ==
  /\ purge.pc = "done"
  /\ UrlGiven
  /\ Len(purge.givenKeys) = 3
  /\ Len(purge.serviceIds) = 3
  /\ Fetched = {1}
  /\ \A i \in 1..3 : ~purge.results[i].success

\* C21: with dryRun set, an executePurge that passes its argument checks
\* makes no network request in any mode, whether or not FASTLY_TOKEN is
\* set: every purge call it starts is fulfilled at once without a fetch, and
\* it returns success with one successful result per configured service.
C21_DryRunNoRequest ==
  (Purging /\ purge.options.dryRun) =>
    /\ Fetched = {}
    /\ purge.calls # <<>>
    /\ \A i \in 1..Len(purge.calls) : purge.calls[i].state = "fulfilled"
    /\ purge.settled = <<>>
    /\ purge.pc = "done" =>
         /\ purge.success
         /\ Len(purge.results) = Len(ConfiguredServices)
         /\ \A i \in 1..Len(purge.results) :
              /\ purge.results[i].serviceId = ConfiguredServices[i]
              /\ purge.results[i].success

C21_DryRunWithoutToken ==
  /\ purge.pc = "done"
  /\ purge.options.dryRun
  /\ purge.options.url
  /\ EnvGet("FASTLY_TOKEN") = ""
  /\ Len(purge.results) = 3
  /\ purge.success

(***************************************************************************)
(* getServiceIds, called in an environment that sets service IDs under     *)
(* the variable names of the documentation.                                *)
(***************************************************************************)
IdsValues == {"", "a", " , ", " b,, c "}

IdsEnvs ==
  { << Entry("FASTLY_DEV_SERVICE_IDS", v[1]), Entry("DEV_SERVICE_IDS", v[2]),
       Entry("SERVICE_IDS_DEV", v[3]), Entry("FASTLY_SERVICES_DEV", v[4]),
       Entry("FASTLY_SERVICES_TEST", t) >> :
      v \in [1..4 -> IdsValues], t \in {"", "t"} }

IdsOverrides == {"", "  ", " , ", " x , y"}

GetServiceIdsCall ==
  /\ \E e \in {"dev", "test"} : \E servicesOverride \in IdsOverrides :
       \E throwOnEmpty \in BOOLEAN :
         call' = [op |-> "getServiceIds", environment |-> e,
                  servicesOverride |-> servicesOverride, throwOnEmpty |-> throwOnEmpty,
                  result |-> getServiceIds(e, servicesOverride, throwOnEmpty)]
  /\ Quiet

IdsInit ==
  /\ SHELL = "/bin/bash"
  /\ env \in IdsEnvs
  /\ files = NoFiles
  /\ run = IdleRun
  /\ runs = 0
  /\ call = NoCall
  /\ purge = IdlePurge
  /\ invocations = <<>>

IdsNext == GetServiceIdsCall

IdsSpec == IdsInit /\ [][IdsNext]_vars

\* The variable names of the documentation, in its order.
DocumentedIdPatterns(e) ==
  << "FASTLY_" \o EnvUpper(e) \o "_SERVICE_IDS",
     EnvUpper(e) \o "_SERVICE_IDS",
     "SERVICE_IDS_" \o EnvUpper(e),
     "FASTLY_SERVICES_" \o EnvUpper(e) >>

\* The override is absent or blank, or it names at least one service.
UsableOverride == Trim(call.servicesOverride) = "" \/ TrimmedElements(call.servicesOverride) # <<>>

\* C22: getServiceIds returns the trimmed non-empty elements of the
\* override when one is given; otherwise those of the first variable among
\* FASTLY_{ENV}_SERVICE_IDS, {ENV}_SERVICE_IDS, SERVICE_IDS_{ENV} and
\* FASTLY_SERVICES_{ENV} that yields an ID; when none does it throws
\* 'No service IDs configured', or returns the empty list when throwOnEmpty
\* is false.
C22_FirstOfFourPatterns ==
  (call.op = "getServiceIds" /\ UsableOverride) =>
    LET given == TrimmedElements(call.servicesOverride)
        found == FirstYield(DocumentedIdPatterns(call.environment), 1)
    IN IF given # <<>>
       THEN ~call.result.threw /\ call.result.ids = given
       ELSE IF found # <<>>
       THEN ~call.result.threw /\ call.result.ids = found
       ELSE IF call.throwOnEmpty
       THEN /\ call.result.threw
            /\ StartsWith(call.result.message, "No service IDs configured")
       ELSE ~call.result.threw /\ call.result.ids = <<>>

(***************************************************************************)
(* The order of the steps of executeSetup.                                 *)
(***************************************************************************)
ValidationFailedHeader == Log("error", "Export command validation failed:")

\* The lines printed with console.log: the export commands.
PrintedCommands == SelectSeq(run.logs, LAMBDA l : l.level = "console.log")

\* The synthesized commands of the run, and what their validation returns.
Synthesized == generateExportCommands(run.config, run.options.exportKeys)

\* The run is past the diff: it has synthesized and validated its commands.
PastDiff == run.decoded /\ ~run.stopped /\ run.pc \in {"writeAwait", "done", "exited"}

\* What the run has done is in the order decode, diff, synthesize,
\* validate, materialize.
StepOrder ==
  run.pc # "idle" =>
    /\ ~run.decoded =>
         /\ run.pc = "exited" /\ run.exitCode = 1
         /\ ~run.diffShown /\ run.exportCommands = <<>> /\ run.materialized = "none"
    /\ (run.diffShown /\ ~run.stopped) => DiffBeforeCommands
    /\ ~PastDiff => (run.exportCommands = <<>> /\ run.materialized = "none")
    /\ run.materialized = "none" => PrintedCommands = <<>>
    /\ run.materialized # "none" =>
         /\ PastDiff /\ run.validated
         /\ run.exportCommands = Synthesized
         /\ validateExportCommands(run.exportCommands).isValid
         /\ PrintedCommands \in {<<>>, ConsoleLines(run.exportCommands)}
         /\ run.materialized = "printed" => PrintedCommands = ConsoleLines(run.exportCommands)

\* A failed command validation: the errors through logger.error, exit 1,
\* nothing printed and nothing written.
FailedValidationExits ==
  (PastDiff /\ ~validateExportCommands(Synthesized).isValid) =>
    /\ run.pc = "exited" /\ run.exitCode = 1
    /\ run.materialized = "none" /\ PrintedCommands = <<>> /\ ~LoggedFileWrite
    /\ InLogs(ValidationFailedHeader)
    /\ \A k \in 1..Len(validateExportCommands(Synthesized).errors) :
         \E i \in (IndexInLogs(ValidationFailedHeader) + 1)..Len(run.logs) :
           run.logs[i] = Log("error", "  " \o validateExportCommands(Synthesized).errors[k])

\* A step that changes a file appends the block of the validated commands of
\* the run to the shell config file.
WritesValidatedBlock ==
  files' # files =>
    /\ run'.decoded /\ run'.validated /\ run'.materialized = "written"
    /\ validateExportCommands(run'.exportCommands).isValid
    /\ files' = [files EXCEPT ![getShellConfigPath] =
                   [exists |-> TRUE,
                    content |-> (IF @.exists THEN @.content ELSE "")
                                \o BlockContent(run'.exportCommands)]]

\* C23: in every run of executeSetup the steps occur in the order decode,
\* diff, synthesize, validate commands, materialize: the commands are
\* printed, or their block appended, only after decodeSetupString succeeded
\* and validateExportCommands returned valid for exactly those commands; if
\* command validation fails the errors are logged through logger.error, the
\* process exits with status 1, and no command is printed or written.
C23_StepOrder ==
  /\ [](StepOrder /\ FailedValidationExits)
  /\ [][WritesValidatedBlock]_vars

C23_InvalidCommandsExit ==
  /\ run.pc = "exited"
  /\ run.options.allowExecution
  /\ run.decoded
  /\ InLogs(ValidationFailedHeader)
  /\ Synthesized # <<>>

(***************************************************************************)
(* What one entry contributes to the findings of validateSetupConfig.      *)
(***************************************************************************)
\* n copies of s.
RECURSIVE Repeat(_, _)
Repeat(s, n) ==
  IF n = 0 THEN ""
  ELSE IF n % 2 = 0 THEN LET half == Repeat(s, n \div 2) IN half \o half
  ELSE s \o Repeat(s, n - 1)

\* The value with as many letters a appended as the length limit counts.
Padded(value) == value \o Repeat("a", MaxValueLength)

\* The value Padded was applied to.
Unpadded(value) == SubSeq(value, 1, Len(value) - MaxValueLength)

\* Values whose last comma-separated element is the letter a.
ShortValues == {"a", "a;b,a", "b c,a", "curl,a", "$(x),a", "a\fb,a", "a../,a"}

EntryKeys == {"FASTLY_FOO", "FASTLY_DEFAULT_KEYS", "FASTLY_DEV_SERVICE_NAMES"}

BadNames == {"PATH", "fastly_x", "FASTLY_a", "FASTLY-X", "_FASTLY_X", "1FASTLY_IDS", " FASTLY_X", ""}

SubjectEntries ==
  { Entry(k, v) : k \in BadNames, v \in {"v", "a;b", "curl"} }
  \cup { Entry("PATH", Padded("a;b")) }
  \cup { Entry(k, "") : k \in BadNames \cup EntryKeys }
  \cup { Entry(k, Padded(v)) : k \in EntryKeys, v \in ShortValues \cup {""} }

ContextEntries == { Entry("FASTLY_TEST_SERVICE_IDS", "rm x") }

\* The subject entry alone, or at either side of another entry.
EntryConfigs ==
  { <<e>> : e \in SubjectEntries }
  \cup { <<c, e>> : c \in ContextEntries, e \in SubjectEntries }
  \cup { <<e, c>> : c \in ContextEntries, e \in SubjectEntries }

ValidateEntryCall ==
  /\ call.op = "none"
  /\ \E config \in EntryConfigs :
       call' = [NoCall EXCEPT !.op = "validateSetupConfig", !.config = config]
  /\ Quiet

EntryInit ==
  /\ SHELL \in ApiShells
  /\ env = <<>>
  /\ files = NoFiles
  /\ run = IdleRun
  /\ runs = 0
  /\ call = NoCall
  /\ purge = IdlePurge
  /\ invocations = <<>>

EntryNext == ValidateEntryCall

EntrySpec == EntryInit /\ [][EntryNext]_vars

LengthError(name) ==
  "Environment variable " \o name \o " exceeds maximum length (1000 characters)"

\* The key does not start with FASTLY_ or holds a character that is not an
\* uppercase letter, a digit or an underscore.
BadName(name) ==
  \/ ~StartsWith(name, "FASTLY_")
  \/ \E i \in 1..Len(name) : CharAt(name, i) \notin UpperChars \cup DigitChars \cup {"_"}

\* The findings of the entries before, and after, the n-th.
Before(config, n) == validateSetupConfig(SubSeq(config, 1, n - 1))

After(config, n) == validateSetupConfig(SubSeq(config, n + 1, Len(config)))

\* The findings of the value before it was padded over the limit.
Short(e) == validateSetupConfig(<<Entry(e.key, Unpadded(e.value))>>)

\* C24: in validateSetupConfig an entry with a non-empty value and a bad
\* key adds exactly the name error and no other finding; an entry with a
\* valid key whose value is longer than 1000 characters adds the length
\* error and then the security, keyword and format findings of the value
\* (those it had before letters were appended to make it too long); an
\* entry with an empty value adds nothing, whatever its key.
C24_EntryContributions ==
  call.op = "validateSetupConfig" =>
    \A all \in {Validation} : \A n \in 1..Len(call.config) :
      \A before \in {Before(call.config, n)} : \A after \in {After(call.config, n)} :
        LET e == call.config[n]
        IN /\ e.value = "" =>
                /\ all.errors = before.errors \o after.errors
                /\ all.warnings = before.warnings \o after.warnings
           /\ (e.value # "" /\ BadName(e.key)) =>
                /\ all.errors = before.errors \o <<NameError(e.key)>> \o after.errors
                /\ all.warnings = before.warnings \o after.warnings
           /\ (~BadName(e.key) /\ Len(e.value) = MaxValueLength) =>
                /\ all.errors = before.errors \o after.errors
           /\ (~BadName(e.key) /\ Len(e.value) > MaxValueLength) =>
                \A short \in {Short(e)} :
                  /\ all.errors
                       = before.errors \o <<LengthError(e.key)>> \o short.errors \o after.errors
                  /\ all.warnings = before.warnings \o short.warnings \o after.warnings

C24_LongValueStillChecked ==
  /\ call.op = "validateSetupConfig"
  /\ Len(call.config) = 2
  /\ Len(call.config[1].value) > MaxValueLength
  /\ ~BadName(call.config[1].key)
  /\ \E all \in {Validation} :
       /\ Len(all.errors) >= 3
       /\ all.errors[1] = LengthError(call.config[1].key)
       /\ Len(all.warnings) >= 2

(***************************************************************************)
(* The commands of generateExportCommands.                                 *)
(***************************************************************************)
\* The entries whose command is due: a non-empty value, and a key of the
\* allow-list when one is given.
Exported(config, exportKeys) ==
  { n \in 1..Len(config) :
      /\ config[n].value # ""
      /\ exportKeys.given => config[n].key \in exportKeys.keys }

\* The k-th of them in the configuration's order.
NthExported(config, exportKeys, k) ==
  CHOOSE n \in Exported(config, exportKeys) :
    Cardinality({ m \in Exported(config, exportKeys) : m < n }) = k - 1

\* C25: generateExportCommands emits exactly one command export KEY="VALUE"
\* for each entry with a non-empty value whose key is in the allow-list
\* (for every such entry when there is no allow-list), the value verbatim
\* between the double quotes, in the configuration's order, and nothing
\* else; a key of the allow-list that the configuration lacks adds nothing.
C25_OneCommandPerExportedEntry ==
  call.op = "generateExportCommands" =>
    /\ Len(call.commands) = Cardinality(Exported(call.config, call.exportKeys))
    /\ \A k \in 1..Len(call.commands) :
         LET e == call.config[NthExported(call.config, call.exportKeys, k)]
             command == call.commands[k]
             prefix == "export " \o e.key \o "=\""
         IN /\ StartsWith(command, prefix)
            /\ Len(command) = Len(prefix) + Len(e.value) + 1
            /\ SubSeq(command, Len(prefix) + 1, Len(command) - 1) = e.value
            /\ CharAt(command, Len(command)) = "\""

C25_FilteredAndSkipped ==
  /\ call.op = "generateExportCommands"
  /\ call.exportKeys.given
  /\ \E key \in call.exportKeys.keys : \A n \in 1..Len(call.config) : call.config[n].key # key
  /\ Len(call.config) = 3
  /\ Len(call.commands) = 1

(***************************************************************************)
(* Validation when the escaping engine throws.                             *)
(***************************************************************************)
FallbackError(fieldName) ==
  "Security violation in " \o fieldName \o ": contains potentially dangerous shell characters"

EngineErrors(fieldName) ==
  { "Security violation in " \o fieldName \o ": contains shell metacharacters that require escaping",
    "Security violation in " \o fieldName
      \o ": contains dangerous shell metacharacters beyond spaces" }

\* The entries validateSetupConfig hands to checkShellInjection.
CheckedForInjection(config) ==
  { n \in 1..Len(config) : config[n].value # "" /\ IsValidName(config[n].key) }

\* C26: when the escaping engine throws, validateSetupConfig and
\* validateExportCommands still return their verdict.  validateSetupConfig
\* reports for every entry it checks the error of the static metacharacter
\* check exactly when the value holds one of the dangerous characters, no
\* error of the engine, and the format errors and keyword warnings of that
\* entry and of the entries after it; validateExportCommands reports the
\* errors of every command of the list and no metacharacter warning.
C26_EngineFailureFallsBack ==
  ShescapeThrows =>
    /\ call.op = "validateSetupConfig" =>
         \A all \in {Validation} :
           /\ all.isValid <=> all.errors = <<>>
           /\ \A n \in CheckedForInjection(call.config) :
                LET e == call.config[n] IN
                /\ InErrors(all.errors, FallbackError(e.key))
                     <=> Chars(e.value) \cap DangerousCharSet # {}
                /\ \A x \in EngineErrors(e.key) : ~InErrors(all.errors, x)
                /\ \A i \in 1..Len(validateFieldFormat(e.key, e.value)) :
                     InErrors(all.errors, validateFieldFormat(e.key, e.value)[i])
                /\ \A i \in 1..Len(checkSuspiciousKeywords(e.value, e.key)) :
                     InErrors(all.warnings, checkSuspiciousKeywords(e.value, e.key)[i])
           /\ Len(ConfigConsole(call.config)) = Cardinality(CheckedForInjection(call.config))
    /\ call.op = "validateExportCommands" =>
         \A all \in {CommandValidation} :
           /\ all.isValid <=> all.errors = <<>>
           /\ all.warnings = <<>>
           /\ \A n \in 1..Len(call.commands) :
                \A i \in 1..Len(CommandErrors(call.commands[n])) :
                  InErrors(all.errors, CommandErrors(call.commands[n])[i])

C26_FallbackThenLaterEntry ==
  /\ ShescapeThrows
  /\ call.op = "validateSetupConfig"
  /\ Len(call.config) = 3
  /\ InErrors(Validation.errors, FallbackError(call.config[1].key))
  /\ \E i \in 1..Len(Validation.errors) : Includes(Validation.errors[i], call.config[3].key)

(***************************************************************************)
(* What executeSetup leaves alone.                                         *)
(***************************************************************************)
\* The configuration of the run is the one decodeSetupString returned, after
\* the validation, the diff and the synthesis have read it.
ConfigKept ==
  (run.pc # "idle" /\ run.decoded) =>
    \A d \in {decodeSetupString(run.encodedConfig)} : d.ok /\ run.config = d.config

\* No step writes the live process environment.
EnvironmentKept == env' = env /\ SHELL' = SHELL

\* C27: validation, diffing and synthesis are read-only: the configuration
\* of a run stays the decoded one through validateSetupConfig,
\* analyzeSetupChanges and generateExportCommands, and no step of an
\* executeSetup run, whatever its outcome, writes the live process
\* environment.
C27_ReadOnly ==
  /\ []ConfigKept
  /\ [][EnvironmentKept]_vars

C27_WrittenButEnvironmentOld ==
  /\ run.pc = "done"
  /\ run.materialized = "written"
  /\ run.options.force
  /\ run.config = ConfigDev
  /\ EnvGet("FASTLY_DEV_SERVICE_IDS") = "old-1"

(***************************************************************************)
(* The shell config file once it holds the marker.                         *)
(***************************************************************************)
\* The begin-marker is in the shell config file.
MarkerPresent ==
  files[getShellConfigPath].exists /\ Includes(files[getShellConfigPath].content, marker)

AppendedText ==
  SubSeq(files'[getShellConfigPath].content,
         Len(files[getShellConfigPath].content) + 1,
         Len(files'[getShellConfigPath].content))

\* The lines of a block: a blank line, the marker comment, the commands, the
\* end marker comment, and the end of the last line.
BlockOf(commands) ==
  "\n" \o marker \o "\n"
  \o ConcatRange([k \in 1..Len(commands) |-> commands[k] \o "\n"], 1, Len(commands))
  \o "# End " \o marker \o "\n"

\* export NAME="VALUE" with a FASTLY_ name of uppercase letters, digits and
\* underscores and a value without double quote, backslash and dollar sign.
SafeExport(command) ==
  \E eq \in 1..Len(command) :
    /\ CharAt(command, eq) = "="
    /\ \A i \in 1..(eq - 1) : CharAt(command, i) # "="
    /\ StartsWith(command, "export ")
    /\ ~BadName(SubSeq(command, 8, eq - 1))
    /\ Len(command) >= eq + 2
    /\ CharAt(command, eq + 1) = "\""
    /\ CharAt(command, Len(command)) = "\""
    /\ Chars(SubSeq(command, eq + 2, Len(command) - 1)) \cap {"\"", "\\", "$"} = {}

\* A step that changes a file appends to the shell config file, and to no
\* other, one block of safe export commands.
AppendsSafeBlock ==
  files' # files =>
    /\ \A p \in ConfigPaths \ {getShellConfigPath} : files'[p] = files[p]
    /\ files'[getShellConfigPath].exists
    /\ StartsWith(files'[getShellConfigPath].content, files[getShellConfigPath].content)
    /\ AppendedText = BlockOf(run'.exportCommands)
    /\ \A k \in 1..Len(run'.exportCommands) : SafeExport(run'.exportCommands[k])

\* C29: whatever the inputs of the executeSetup invocations, everything
\* they append to the shell config file consists of marker comment lines,
\* blank lines and export commands, each with a FASTLY_ name of uppercase
\* letters, digits and underscores and a double-quoted value that holds no
\* double quote, backslash or dollar sign.
C29_OnlySafeBlocksAppended == [][AppendsSafeBlock]_vars

C29_MultiLineValueWritten ==
  /\ run.pc = "done"
  /\ run.materialized = "written"
  /\ run.config = ConfigNewline
  /\ Includes(files[getShellConfigPath].content, "export FASTLY_FOO=\"a\nb\"\n# End")

(***************************************************************************)
(* Several executeSetup invocations of one process, started before the     *)
(* earlier ones have ended.  One invocation runs at a time, from an await  *)
(* to its next await: run is the one that runs, invocations holds those    *)
(* that wait at an await or have returned.  process.exit ends them all.    *)
(***************************************************************************)
ConcInputs ==
  { [encodedConfig |-> encodeSetupString(c),
     options |-> Options(TRUE, force, NoExportKeys),
     appendFails |-> FALSE] :
      c \in {ConfigDev, ConfigDevTest}, force \in BOOLEAN }

\* A caller starts an invocation: it runs up to its first await.
StartConcurrent ==
  /\ run.pc = "idle"
  /\ \E in \in ConcInputs : ExecuteSetup(in.encodedConfig, in.options, in.appendFails)

\* The invocation that runs has reached an await, or returned: it yields.
Yield ==
  /\ run.pc \in {"stopAwait", "showAwait", "writeAwait", "done"}
  /\ invocations' = Append(invocations, run)
  /\ run' = IdleRun
  /\ UNCHANGED <<SHELL, env, files, runs, call, purge>>

\* The k-th waiting invocation continues after its await.
Continue(k) ==
  /\ run.pc = "idle"
  /\ invocations[k].pc \in {"stopAwait", "showAwait", "writeAwait"}
  /\ run' = invocations[k]
  /\ invocations' = SubSeq(invocations, 1, k - 1) \o SubSeq(invocations, k + 1, Len(invocations))
  /\ UNCHANGED <<SHELL, env, files, runs, call, purge>>

ContinueSome == \E k \in 1..Len(invocations) : Continue(k)

ConcInit ==
  /\ SHELL \in {"/bin/bash", "/bin/zsh"}
  /\ env \in SetupEnvs
  /\ files \in {NoFiles, UserFiles}
  /\ run = IdleRun
  /\ runs = 0
  /\ call = NoCall
  /\ purge = IdlePurge
  /\ invocations = <<>>

ConcNext ==
  \/ StartConcurrent
  \/ Yield
  \/ ContinueSome
  \/ ResumeAfterStop
  \/ ResumeAfterShow
  \/ ResumeAfterWrite

ConcSpec == ConcInit /\ [][ConcNext]_vars

\* The invocations of the process: the one that runs and those that wait.
Started == { i \in 0..Len(invocations) : (IF i = 0 THEN run ELSE invocations[i]).pc # "idle" }

Invocation(i) == IF i = 0 THEN run ELSE invocations[i]

Writers == { i \in Started : Invocation(i).materialized = "written" }

\* No file holds more than one block, and one invocation at most wrote it.
AtMostOneBlock ==
  /\ \A p \in ConfigPaths : MarkerBlocks(files[p].content) <= 1
  /\ Cardinality(Writers) <= 1
  /\ Cardinality(Writers) = MarkerBlocks(files[getShellConfigPath].content)

\* The step that appends is the one step of an invocation that takes it from
\* the marker check to the append: it had not appended before.
AppendsOnce ==
  files' # files =>
    /\ run.materialized = "none"
    /\ run'.materialized = "written"
    /\ invocations' = invocations
    /\ ~MarkerPresent

\* C30: the marker check and the append of writeToShellConfig run with no
\* await between them, so when several executeSetup calls in write mode are
\* started concurrently in one process on the same shell file, under every
\* interleaving of their asynchronous steps the file ends with at most one
\* marker-delimited block, and each invocation appends at most once.
C30_OneBlockUnderInterleaving ==
  /\ []AtMostOneBlock
  /\ [][AppendsOnce]_vars

C30_SecondSkippedWhileFirstAwaits ==
  /\ run.pc = "done"
  /\ run.materialized = "skipped"
  /\ run.diffShown
  /\ Len(invocations) = 1
  /\ invocations[1].pc = "writeAwait"
  /\ invocations[1].materialized = "written"
====
